---- MODULE Spec2Model ----
(***************************************************************************)
(* The LaTeX compile service (src/server.js, second server, lines 176-927): *)
(* the authenticateApiKey middleware and the app.post("/compile") handler  *)
(* as a state machine over a shared filesystem.  One job is one request.   *)
(* An action is one synchronous stretch of the handler: the code from one  *)
(* await (a filesystem promise, a child process's 'close') to the next.    *)
(***************************************************************************)
EXTENDS Integers, Sequences, FiniteSets, TLC

\* ------------------------------------------------------------------ bounds
\* Number of requests that may be in flight together.
NumJobs == 2

Jobs == 1..NumJobs

\* ------------------------------------------------------------------- paths
\* A path is a sequence of segments; a segment is <<stem, extension>>.
Seg(stem, ext) == <<stem, ext>>

\* "/opt/latexfiles", the first argument of path.resolve.
LatexRoot == << Seg("opt", ""), Seg("latexfiles", "") >>

\* path.resolve(root, filename): the segments of filename are applied to root
\* one by one, ".." dropping the last segment.  A filename that starts with
\* "/" (its first segment is the empty one) is absolute and replaces root.
RECURSIVE PathResolve(_, _)
PathResolve(base, segs) ==
    IF segs = << >> THEN base
    ELSE IF Head(segs) = Seg("", "") THEN PathResolve(<< >>, Tail(segs))
    ELSE IF Head(segs) = Seg("..", "")
         THEN PathResolve(IF base = << >> THEN base ELSE SubSeq(base, 1, Len(base) - 1),
                          Tail(segs))
         ELSE PathResolve(Append(base, Head(segs)), Tail(segs))

\* path.dirname
PathDirname(p) == SubSeq(p, 1, Len(p) - 1)

\* path.basename
PathBasename(p) == p[Len(p)]

\* path.join(dir, name)
PathJoin(dir, name) == Append(dir, name)

\* baseFilename.replace(from, to) on a name whose extension is the only place
\* the text `from` can occur: a name without it is returned unchanged.
ReplaceExt(name, from, to) == IF name[2] = from THEN Seg(name[1], to) ELSE name

\* The handler's path derivation.
absolutePathOf(filename) == PathResolve(LatexRoot, filename)
dirPathOf(filename) == PathDirname(absolutePathOf(filename))
baseFilenameOf(filename) == PathBasename(filename)
pdfPathOf(filename) ==
    PathJoin(dirPathOf(filename), ReplaceExt(baseFilenameOf(filename), ".tex", ".pdf"))
logPathOf(filename) ==
    PathJoin(dirPathOf(filename), ReplaceExt(baseFilenameOf(filename), ".tex", ".log"))
bibPathOf(filename) == PathJoin(dirPathOf(filename), Seg("references", ".bib"))
imagesDirOf(filename) == PathJoin(dirPathOf(filename), Seg("images", ""))

\* ------------------------------------------------------------------- texts
\* A text (compiler stdout, a log file) is a sequence of newline-terminated
\* lines; a line is named by its class:
\*   "err"   a line starting with "! "
\*   "errAt" a line carrying "file:12: "
\*   "warn"  a line carrying "LaTeX Warning:", without a line number
\*   "warnAt" a line carrying "LaTeX Warning: ... on line 7"
\*   "out"   the "Output written on ..." line
\*   "noise" a line under /usr/local/texlive/.../texmf-dist/
\*   "blank" an empty line
\*   "txt"   any other line
\*   "none"  the text "No compilation output available"
Lines == {"err", "errAt", "warn", "warnAt", "out", "noise", "blank", "txt", "none"}

\* The line of a match: parseInt of the digits of ":12:" or "on line 7",
\* null (the empty sequence) without them.
LineOf(line) ==
    IF line = "errAt" THEN << 12 >> ELSE IF line = "warnAt" THEN << 7 >> ELSE << >>

\* One loop of parseLatexErrors: a record for each match of its pattern, in
\* the order of the matches.
RECURSIVE SelectKind(_, _, _)
SelectKind(text, kinds, type) ==
    IF text = << >> THEN << >>
    ELSE (IF Head(text) \in kinds
          THEN << [type |-> type, line |-> LineOf(Head(text)),
                   details |-> <<"line", Head(text)>>] >>
          ELSE << >>)
         \o SelectKind(Tail(text), kinds, type)

\* Mutant of parseLatexErrors: a warning's record has the kind "Info".
parseLatexErrorsInfo(logContent) ==
    SelectKind(logContent, { "err", "errAt" }, "Error")
    \o SelectKind(logContent, { "warn", "warnAt" }, "Info")

\* parseLatexErrors: the first loop collects every error match, the second
\* loop then appends every warning match.
parseLatexErrors(logContent) ==
    SelectKind(logContent, { "err", "errAt" }, "Error")
    \o SelectKind(logContent, { "warn", "warnAt" }, "Warning")

\* One line of formatLatexOutput's reduce: dropped, labelled or kept.
FormatLine(line) ==
    IF line = "noise" THEN << >>
    ELSE IF line = "err" THEN << <<"Error: ", line>> >>
    ELSE IF line \in { "warn", "warnAt" } THEN << <<"Warning: ", line>> >>
    ELSE IF line = "out" THEN << <<"Output: ", line>> >>
    ELSE << <<"", line>> >>

RECURSIVE formatLatexOutput(_)
formatLatexOutput(stdout) ==
    IF stdout = << >> THEN << >>
    ELSE (IF Head(stdout) = "blank" THEN << >> ELSE FormatLine(Head(stdout)))
         \o formatLatexOutput(Tail(stdout))

\* stdout1 + stdout2 + stdout3 || "No compilation output available"
OrNoOutput(text) == IF text = << >> THEN << "none" >> ELSE text

\* errors.some((e) => e.type === "Warning")
SomeWarning(errs) == \E i \in 1..Len(errs) : errs[i].type = "Warning"

\* The string an 'error' handler pushes onto errors: it has no .type
\* (type "undefined"); details names the process and the failure.
ProcessDiagnostic(name, code) ==
    [type |-> "undefined", line |-> << >>,
     details |-> IF code = "ETIMEDOUT" THEN <<"Compilation timed out", name>>
                 ELSE <<"process error", name>>]

\* ------------------------------------------------------------- filesystem
\* A file's content: what it is, which job wrote it, from which job's source
\* it was made (a PDF), its size class (0 empty, 1 non-empty) and its text.
Absent == [kind |-> "absent", by |-> 0, src |-> 0, size |-> 0, text |-> << >>]
TexFile(j) == [kind |-> "tex", by |-> j, src |-> j, size |-> 1, text |-> << >>]
BibFile(j) == [kind |-> "bib", by |-> j, src |-> j, size |-> 1, text |-> << >>]
PdfFile(j, s, n) == [kind |-> "pdf", by |-> j, src |-> s, size |-> n, text |-> << >>]
LogFile(j, t) == [kind |-> "log", by |-> j, src |-> j, size |-> 1, text |-> t]
ImagesDir(j, n) == [kind |-> "dir", by |-> j, src |-> j, size |-> n, text |-> << >>]

\* The filenames requests carry: "a.tex" and "x/a.tex".
Filenames == { << Seg("a", ".tex") >>, << Seg("x", ""), Seg("a", ".tex") >> }

\* Filenames a request may as well carry: "../../etc/a.tex" and "/tmp/a.tex".
TraversalFilenames ==
    { << Seg("..", ""), Seg("..", ""), Seg("etc", ""), Seg("a", ".tex") >>,
      << Seg("", ""), Seg("tmp", ""), Seg("a", ".tex") >> }

AllPaths ==
    UNION { { absolutePathOf(f), pdfPathOf(f), logPathOf(f), bibPathOf(f), imagesDirOf(f) }
            : f \in Filenames \cup TraversalFilenames
                    \cup { << Seg("mdpi", ""), Seg("template", ".tex") >> } }

\* ---------------------------------------------------------------- requests
\* req.body and the x-api-key header.  filename and content carry their
\* JavaScript type: "string" (non-empty), "undefined" (missing or empty) or
\* "number" (truthy, not a string).  The header is the configured secret,
\* another string, or "none" (no header: undefined).
MaxImages == 1

\* process.env.LATEX_SERVICE_API_KEY
LATEX_SERVICE_API_KEY == "secret"

\* Mutant of Unauthorized: only a request without a key is turned away.
UnauthorizedIfNoKey(apiKey) == apiKey = "none"

\* apiKey !== process.env.LATEX_SERVICE_API_KEY
Unauthorized(apiKey) == apiKey # LATEX_SERVICE_API_KEY

Request(key, ftype, fname, ctype, bib, imgs) ==
    [apiKey |-> key, ftype |-> ftype, filename |-> fname, ctype |-> ctype,
     bibliography |-> bib, imageReferences |-> imgs]

ValidRequests ==
    { Request("secret", "string", f, "string", b, n) :
        f \in Filenames, b \in BOOLEAN, n \in 0..MaxImages }

\* Requests whose filename leaves /opt/latexfiles.
TraversalRequests ==
    { Request("secret", "string",
              << Seg("..", ""), Seg("..", ""), Seg("etc", ""), Seg("a", ".tex") >>,
              "string", TRUE, 1),
      Request("secret", "string", << Seg("", ""), Seg("tmp", ""), Seg("a", ".tex") >>,
              "string", FALSE, 0) }

BadRequests ==
    { Request("wrong", "string", << Seg("a", ".tex") >>, "string", TRUE, 1),
      Request("none", "string", << Seg("a", ".tex") >>, "string", TRUE, 1),
      Request("secret", "undefined", << >>, "string", FALSE, 0),
      Request("secret", "string", << Seg("a", ".tex") >>, "undefined", FALSE, 0),
      Request("secret", "number", << >>, "string", FALSE, 0),
      Request("secret", "string", << Seg("a", ".tex") >>, "number", FALSE, 0) }

AllRequests == ValidRequests \cup BadRequests \cup TraversalRequests

NoRequest == Request("none", "undefined", << >>, "undefined", FALSE, 0)

\* --------------------------------------------------------------- responses
JsonResponse(status, error, output, errs, warn) ==
    [status |-> status, error |-> error, output |-> output, errors |-> errs,
     warnings |-> warn, body |-> Absent, errorCount |-> 0, errorSummary |-> << >>]

\* errors.slice(0, 3).map((e) => `Line ${e.line}: ${e.type}`): the types of
\* the first three diagnostics.
ErrorSummary(errs) ==
    [i \in 1..(IF Len(errs) < 3 THEN Len(errs) ELSE 3) |-> errs[i].type]

\* res.status(200).send(pdfBuffer) with the X-LaTeX-* headers: the body is the
\* PDF, the headers carry X-LaTeX-Warnings, X-LaTeX-Error-Count and
\* X-LaTeX-Error-Summary; errorInfo itself is not sent.
PdfResponse(pdf, errs) ==
    [status |-> 200, error |-> "", output |-> << >>, errors |-> << >>,
     warnings |-> Len(errs) > 0, body |-> pdf, errorCount |-> Len(errs),
     errorSummary |-> ErrorSummary(errs)]

\* ------------------------------------------------------- process outcomes
\* What a lualatex run does before it closes: exit code (-1: killed by a
\* signal, code null; -2: never started), its stdout, whether it ran at all,
\* what it did to the PDF ("full", "empty" or "keep") and its log.
Outcome(code, out, ran, pdf, log) ==
    [code |-> code, out |-> out, ran |-> ran, pdf |-> pdf, log |-> log]

ExitClean == Outcome(0, << "txt", "out" >>, TRUE, "full", << "txt" >>)
ExitWarned == Outcome(0, << "warn", "out" >>, TRUE, "full", << "warn" >>)
ExitRecovered == Outcome(1, << "err", "out" >>, TRUE, "full", << "warn", "err" >>)
ExitFatal == Outcome(1, << "err" >>, TRUE, "keep", << "err" >>)
Killed == Outcome(-1, << "noise", "blank" >>, TRUE, "empty", << "txt" >>)
NotStarted == Outcome(-2, << >>, FALSE, "keep", << >>)

PassOutcomes == { ExitClean, ExitWarned, ExitRecovered, ExitFatal, Killed }

\* ------------------------------------------------------------------- state
VARIABLES
    pc,        \* where each job's handler is suspended
    req,       \* the request of each job
    stdout1, stdout2, stdout3,   \* the handler's accumulated stdout
    errors,    \* the handler's outer `errors`
    warnings,  \* the handler's outer `warnings`
    errorInfo, \* the success path's local errorInfo object
    proc,      \* the job's child process: none, running, ENOENT, ETIMEDOUT, lost
    res,       \* the responses sent for each job, in order
    fs,        \* the filesystem under /opt/latexfiles, shared by all jobs
    hist,      \* what each job has done so far (history, for the properties)
    uncaught,  \* exceptions that reached process.on("uncaughtException")
    retry,     \* one call of getDocWithRetry (unnamed/part_002)
    dl,        \* one call of downloadImages
    client,    \* one GET of the export route (unnamed/part_002), pdf branch
    extract,   \* calls of extractContent on one fragment (unnamed/part_002)
    parse,     \* one call of parseLatexErrors on one log text
    variant,   \* the two-pass compile handler (unnamed/part_004)
    tasks      \* the per-section tasks of one GET of the export route

\* The compile service's own state.
serverVars == << pc, req, stdout1, stdout2, stdout3, errors, warnings, errorInfo,
                 proc, res, fs, hist, uncaught >>

\* The state of the calls modelled on their own.
callVars == << retry, dl, client, extract, parse, variant, tasks >>

vars == << pc, req, stdout1, stdout2, stdout3, errors, warnings, errorInfo,
           proc, res, fs, hist, uncaught, retry, dl, client, extract, parse,
           variant, tasks >>

\* No call of getDocWithRetry, of downloadImages, of the export route.
NoRetry == [state |-> "idle", docId |-> "none", maxRetries |-> 0, attempt |-> 0,
            fetched |-> << >>, delays |-> << >>, result |-> "none", via |-> "none"]

NoDownload == [state |-> "idle", imageReferences |-> << >>, img |-> << >>,
               successful |-> 0, failed |-> 0, response |-> << >>,
               assets |-> << >>, errorLogs |-> << >>]

NoClient == [state |-> "idle", sections |-> << >>, imageReferences |-> << >>,
             updatedImageRefs |-> << >>, img |-> << >>, fetches |-> << >>,
             updates |-> << >>, diagnostics |-> << >>, size |-> << >>,
             compressions |-> << >>,
             answer |-> [status |-> 0, body |-> Absent, why |-> "none"]]

NoExtract == [state |-> "idle", fragment |-> << >>, calls |-> << >>]

NoParse == [state |-> "idle", logContent |-> << >>, result |-> << >>]

\* The two-pass handler has no request; no GET processes its sections.
NoVariant == [state |-> "idle", i |-> 0, pdf |-> "absent", codes |-> << >>,
              read |-> "none", res |-> << >>, served |-> 0, crashed |-> FALSE]

NoTasks == [state |-> "idle", enableLogging |-> FALSE, sections |-> << >>,
            outcome |-> << >>, value |-> << >>, settled |-> << >>,
            sectionsWithContent |-> << >>]

NoErrorInfo == [output |-> << >>, errors |-> << >>, warnings |-> FALSE]

ServerInit ==
    /\ pc = [j \in Jobs |-> "idle"]
    /\ req = [j \in Jobs |-> NoRequest]
    /\ stdout1 = [j \in Jobs |-> << >>]
    /\ stdout2 = [j \in Jobs |-> << >>]
    /\ stdout3 = [j \in Jobs |-> << >>]
    /\ errors = [j \in Jobs |-> << >>]
    /\ warnings = [j \in Jobs |-> FALSE]
    /\ errorInfo = [j \in Jobs |-> NoErrorInfo]
    /\ proc = [j \in Jobs |-> "none"]
    /\ res = [j \in Jobs |-> << >>]
    /\ fs = [p \in AllPaths |-> Absent]
    /\ hist = [j \in Jobs |-> << >>]
    /\ uncaught = 0

Init ==
    /\ ServerInit
    /\ variant = NoVariant
    /\ tasks = NoTasks
    /\ retry = NoRetry
    /\ dl = NoDownload
    /\ client = NoClient
    /\ extract = NoExtract
    /\ parse = NoParse

\* ----------------------------------------------------------------- helpers
Ev(ev, what, code) == [ev |-> ev, what |-> what, code |-> code]

Passes == { "lualatex1", "lualatex2", "lualatex3" }

\* The number hist records for an err.code.
Errno(code) == IF code = "ENOENT" THEN -2 ELSE -1

\* Mutant of combinedOutput: the third run's stdout is left out.
firstTwoOutputs(j) == stdout1[j] \o stdout2[j]

\* stdout1 + stdout2 + stdout3
combinedOutput(j) == stdout1[j] \o stdout2[j] \o stdout3[j]

\* The handler's control state, set by every continuation below.
ctl == << pc, proc, hist, errors, warnings, res >>

\* res.status(status).json(...) of a catch block, lines 821-837 and 843-859:
\* errors is overwritten by what parseLatexErrors finds in the stdout.
Fail(j, error, done) ==
    LET parsed == parseLatexErrors(combinedOutput(j)) IN
    /\ errors' = [errors EXCEPT ![j] = parsed]
    /\ warnings' = [warnings EXCEPT ![j] = SomeWarning(parsed)]
    /\ res' = [res EXCEPT ![j] =
                 Append(@, JsonResponse(500, error,
                                        formatLatexOutput(OrNoOutput(combinedOutput(j))),
                                        parsed, SomeWarning(parsed)))]
    /\ pc' = [pc EXCEPT ![j] = "done"]
    /\ proc' = [proc EXCEPT ![j] = "none"]
    /\ hist' = [hist EXCEPT ![j] = @ \o done]

\* Mutant of InnerCatch: the catch block logs the error and sends nothing.
InnerCatchSilent(j, done) ==
    /\ pc' = [pc EXCEPT ![j] = "done"]
    /\ proc' = [proc EXCEPT ![j] = "none"]
    /\ hist' = [hist EXCEPT ![j] = @ \o done]
    /\ UNCHANGED << errors, warnings, res >>

\* catch (error) of the inner try, lines 817-838.
InnerCatch(j, done) == Fail(j, "PDF compilation failed", done)

\* catch (error) of the outer try, lines 839-859.
OuterCatch(j, done) == Fail(j, "Server error", done)

\* An early return with a JSON body (401, 400).
Reject(j, status, error) ==
    /\ res' = [res EXCEPT ![j] = Append(@, JsonResponse(status, error, << >>, << >>, FALSE))]
    /\ pc' = [pc EXCEPT ![j] = "done"]
    /\ UNCHANGED << proc, hist, errors, warnings >>

\* spawn(name, ...): the child runs, the handler awaits its 'close'.
Spawn(j, name, done) ==
    /\ pc' = [pc EXCEPT ![j] = name]
    /\ proc' = [proc EXCEPT ![j] = "running"]
    /\ hist' = [hist EXCEPT ![j] = (@ \o done) \o << Ev("spawn", name, 0) >>]
    /\ UNCHANGED << errors, warnings, res >>

\* Suspend at the await of a filesystem promise.
Await(j, at, done) ==
    /\ pc' = [pc EXCEPT ![j] = at]
    /\ proc' = [proc EXCEPT ![j] = "none"]
    /\ hist' = [hist EXCEPT ![j] = @ \o done]
    /\ UNCHANGED << errors, warnings, res >>

\* Mutant of AfterBibliography: the images step is taken whatever the
\* request carries.
AfterBibliographyAlways(j, done) == Await(j, "images", done)

\* Lines 541-577: after the bibliography is handled, download the images if
\* the request has any, else start the first lualatex run.
AfterBibliography(j, done) ==
    IF req[j].imageReferences > 0 THEN Await(j, "images", done)
    ELSE Spawn(j, "lualatex1", done)

\* Lines 533-577: after the source is written.
AfterSource(j, done) ==
    IF req[j].bibliography THEN Await(j, "writebib", done)
    ELSE AfterBibliography(j, done)

\* Mutant of AfterPass: a close handler that rejects on a non-zero exit code,
\* so that the await throws into the inner catch.
AfterPassRejecting(j, name, code, done) ==
    IF code # 0 THEN InnerCatch(j, done)
    ELSE IF name = "lualatex1"
    THEN IF req[j].bibliography THEN Spawn(j, "bibtex", done)
         ELSE Spawn(j, "lualatex2", done)
    ELSE IF name = "lualatex2" THEN Spawn(j, "lualatex3", done)
    ELSE IF req[j].imageReferences > 0 THEN Await(j, "cleanup", done)
    ELSE Await(j, "collect", done)

\* Mutant of AfterPass: the third run is left out.
AfterPassTwoRuns(j, name, code, done) ==
    IF name = "lualatex1"
    THEN IF req[j].bibliography THEN Spawn(j, "bibtex", done)
         ELSE Spawn(j, "lualatex2", done)
    ELSE IF req[j].imageReferences > 0 THEN Await(j, "cleanup", done)
    ELSE Await(j, "collect", done)

\* What follows the 'close' of a lualatex run, whatever its exit code: the
\* close handlers (lines 603-608, 665-670, 703-708) only resolve.  After the
\* first run bibtex is started if the request has a bibliography (612), after
\* the third the images are cleaned up if the request has any (711), else the
\* artifact is collected (732).
AfterPass(j, name, code, done) ==
    IF name = "lualatex1"
    THEN IF req[j].bibliography THEN Spawn(j, "bibtex", done)
         ELSE Spawn(j, "lualatex2", done)
    ELSE IF name = "lualatex2" THEN Spawn(j, "lualatex3", done)
    ELSE IF req[j].imageReferences > 0 THEN Await(j, "cleanup", done)
    ELSE Await(j, "collect", done)

\* What follows the 'close' of bibtex (lines 626-636): the second run.
AfterBibtex(j, code, done) == Spawn(j, "lualatex2", done)

\* ----------------------------------------------------------------- actions
\* A request arrives and passes through the authenticateApiKey middleware
\* (lines 192-201): 401 unless the key is the configured one.
authenticateApiKey(j, reqs) ==
    /\ pc[j] = "idle"
    /\ UNCHANGED callVars
    /\ \E r \in reqs :
         /\ req' = [req EXCEPT ![j] = r]
         /\ IF Unauthorized(r.apiKey)
            THEN Reject(j, 401, "Unauthorized")
            ELSE Await(j, "compile", << >>)
    /\ UNCHANGED << stdout1, stdout2, stdout3, errorInfo, fs, uncaught >>

\* Lines 458-516: the handler up to its first await.  content.substring on a
\* non-string content (485) and path.resolve on a non-string filename (504)
\* throw inside the outer try.
CompileEntry(j) ==
    /\ pc[j] = "compile"
    /\ UNCHANGED callVars
    /\ IF req[j].ctype = "number" THEN OuterCatch(j, << >>)
       ELSE IF req[j].ctype = "undefined" \/ req[j].ftype = "undefined"
       THEN Reject(j, 400, "Missing required fields")
       ELSE IF req[j].ftype = "number" THEN OuterCatch(j, << >>)
       ELSE Await(j, "write", << >>)
    /\ UNCHANGED << req, stdout1, stdout2, stdout3, errorInfo, fs, uncaught >>

\* Lines 513-531: mkdirp, writeFile of the source, stat, readdir; any of
\* them may reject.
WriteSource(j) ==
    /\ pc[j] = "write"
    /\ UNCHANGED callVars
    /\ \/ /\ fs' = [fs EXCEPT ![absolutePathOf(req[j].filename)] = TexFile(j)]
          /\ AfterSource(j, << Ev("write", "source", 0) >>)
       \/ /\ InnerCatch(j, << >>)
          /\ UNCHANGED fs
    /\ UNCHANGED << req, stdout1, stdout2, stdout3, errorInfo, uncaught >>

\* Lines 533-539: writeFile of references.bib.
WriteBibliography(j) ==
    /\ pc[j] = "writebib"
    /\ UNCHANGED callVars
    /\ \/ /\ fs' = [fs EXCEPT ![bibPathOf(req[j].filename)] = BibFile(j)]
          /\ AfterBibliography(j, << Ev("write", "bibliography", 0) >>)
       \/ /\ InnerCatch(j, << >>)
          /\ UNCHANGED fs
    /\ UNCHANGED << req, stdout1, stdout2, stdout3, errorInfo, uncaught >>

\* Lines 541-559 and downloadImages (250-456): the images directory is made
\* and `ok` of the images are written into it; a failing image is only
\* counted.  A failing mkdirp throws out of downloadImages.
DownloadImages(j) ==
    /\ pc[j] = "images"
    /\ UNCHANGED callVars
    /\ \/ \E ok \in 0..req[j].imageReferences :
            /\ fs' = [fs EXCEPT ![imagesDirOf(req[j].filename)] = ImagesDir(j, ok)]
            /\ Spawn(j, "lualatex1", << Ev("write", "images", ok) >>)
       \/ /\ InnerCatch(j, << >>)
          /\ UNCHANGED fs
    /\ UNCHANGED << req, stdout1, stdout2, stdout3, errorInfo, uncaught >>

\* The 'error' handlers of the lualatex children (lines 584-596, 646-658,
\* 684-696): a diagnostic is pushed onto errors.
PassError(j, codes) ==
    /\ pc[j] \in Passes
    /\ UNCHANGED callVars
    /\ proc[j] = "running"
    /\ \E code \in codes :
         /\ errors' = [errors EXCEPT ![j] = Append(@, ProcessDiagnostic(pc[j], code))]
         /\ proc' = [proc EXCEPT ![j] = code]
         /\ hist' = [hist EXCEPT ![j] = Append(@, Ev("error", pc[j], Errno(code)))]
    /\ UNCHANGED << pc, req, stdout1, stdout2, stdout3, warnings, errorInfo, res, fs,
                    uncaught >>

\* What a lualatex run of job j leaves in the job's directory: it compiles
\* the source file it finds at absolutePath, whoever wrote it.
LualatexEffect(j, o) ==
    LET f == req[j].filename
        source == fs[absolutePathOf(f)]
        withLog == [fs EXCEPT ![logPathOf(f)] = LogFile(j, o.log)]
    IN  IF ~o.ran THEN fs
        ELSE IF o.pdf = "full" THEN [withLog EXCEPT ![pdfPathOf(f)] = PdfFile(j, source.by, 1)]
        ELSE IF o.pdf = "empty" THEN [withLog EXCEPT ![pdfPathOf(f)] = PdfFile(j, source.by, 0)]
        ELSE withLog

\* The outcomes a child in state p can still close with.
ClosableWith(p, outs) ==
    IF p = "running" THEN outs
    ELSE IF p = "ENOENT" THEN { NotStarted }
    ELSE IF p = "ETIMEDOUT" THEN { Killed }
    ELSE { }

\* A lualatex child closes: its stdout 'data' (580-582, 642-644, 680-682) has
\* been appended, its files are written, and the handler resumes after the
\* await of 'close'.
PassClose(j, outs) ==
    /\ pc[j] \in Passes
    /\ UNCHANGED callVars
    /\ \E o \in ClosableWith(proc[j], outs) :
         /\ stdout1' = IF pc[j] = "lualatex1" THEN [stdout1 EXCEPT ![j] = @ \o o.out]
                       ELSE stdout1
         /\ stdout2' = IF pc[j] = "lualatex2" THEN [stdout2 EXCEPT ![j] = @ \o o.out]
                       ELSE stdout2
         /\ stdout3' = IF pc[j] = "lualatex3" THEN [stdout3 EXCEPT ![j] = @ \o o.out]
                       ELSE stdout3
         /\ fs' = LualatexEffect(j, o)
         /\ AfterPass(j, pc[j], o.code, << Ev("close", pc[j], o.code) >>)
    /\ UNCHANGED << req, errorInfo, uncaught >>

\* bibtex emits 'error' (it could not be started).  The handler registers no
\* 'error' listener on bibtex (lines 614-631), so the emit throws inside the
\* runtime's callback and reaches process.on("uncaughtException") (913).
\* Whether the runtime still delivers 'close' after that throw is not up to
\* the handler: either it does (ENOENT) or the event is lost.
BibtexError(j) ==
    /\ pc[j] = "bibtex"
    /\ UNCHANGED callVars
    /\ proc[j] = "running"
    /\ uncaught' = uncaught + 1
    /\ \E p \in { "ENOENT", "lost" } : proc' = [proc EXCEPT ![j] = p]
    /\ UNCHANGED << pc, req, stdout1, stdout2, stdout3, errors, warnings, errorInfo,
                    res, fs, hist >>

\* bibtex closes (lines 626-631), with any exit code.
BibtexClose(j) ==
    /\ pc[j] = "bibtex"
    /\ UNCHANGED callVars
    /\ \E code \in (IF proc[j] = "running" THEN { 0, 1 }
                    ELSE IF proc[j] = "ENOENT" THEN { -2 } ELSE { }) :
         AfterBibtex(j, code, << Ev("close", "bibtex", code) >>)
    /\ UNCHANGED << req, stdout1, stdout2, stdout3, errorInfo, fs, uncaught >>

\* Mutant of CleanupImages: the directory is removed whether or not the PDF
\* exists.
CleanupImagesAlways(j) ==
    /\ pc[j] = "cleanup"
    /\ UNCHANGED callVars
    /\ fs' = [fs EXCEPT ![imagesDirOf(req[j].filename)] = Absent]
    /\ Await(j, "collect", << Ev("cleanup", "images", 0) >>)
    /\ UNCHANGED << req, stdout1, stdout2, stdout3, errorInfo, uncaught >>

\* Lines 710-730: the images directory is removed if the PDF and the
\* directory exist; a failing removal is caught and logged.
CleanupImages(j) ==
    LET f == req[j].filename IN
    /\ pc[j] = "cleanup"
    /\ UNCHANGED callVars
    /\ IF fs[pdfPathOf(f)].kind # "absent" /\ fs[imagesDirOf(f)].kind # "absent"
       THEN \/ fs' = [fs EXCEPT ![imagesDirOf(f)] = Absent]
            \/ fs' = fs
       ELSE fs' = fs
    /\ Await(j, "collect", << Ev("cleanup", "images", 0) >>)
    /\ UNCHANGED << req, stdout1, stdout2, stdout3, errorInfo, uncaught >>

\* Lines 732-838: the PDF is looked up and read, the log is read and parsed,
\* and the PDF is sent with the X-LaTeX-* headers; a missing PDF, or a log
\* that cannot be read, throws into the inner catch.
CollectArtifact(j) ==
    LET f == req[j].filename
        pdf == fs[pdfPathOf(f)]
        log == fs[logPathOf(f)]
        parsed == parseLatexErrors(log.text)
    IN
    /\ pc[j] = "collect"
    /\ UNCHANGED callVars
    /\ IF pdf.kind = "absent" \/ log.kind = "absent"
       THEN /\ InnerCatch(j, << Ev("collect", "none", 0) >>)
            /\ UNCHANGED errorInfo
       ELSE /\ errorInfo' = [errorInfo EXCEPT ![j] =
                               [output |-> formatLatexOutput(combinedOutput(j)),
                                errors |-> parsed,
                                warnings |-> Len(parsed) > 0]]
            /\ res' = [res EXCEPT ![j] = Append(@, PdfResponse(pdf, parsed))]
            /\ pc' = [pc EXCEPT ![j] = "done"]
            /\ hist' = [hist EXCEPT ![j] = Append(@, Ev("collect", "pdf", pdf.size))]
            /\ UNCHANGED << proc, errors, warnings >>
    /\ UNCHANGED << req, stdout1, stdout2, stdout3, fs, uncaught >>

\* ---------------------------------------------------------- specifications
\* The err.code values an 'error' event of a lualatex child may carry.
ErrorCodes == { "ENOENT", "ETIMEDOUT" }

\* The steps of job j that the event loop runs by itself: the continuation of
\* a settled filesystem promise, the 'close' of a child.
JobProgress(j, outs) ==
    \/ CompileEntry(j)
    \/ WriteSource(j)
    \/ WriteBibliography(j)
    \/ DownloadImages(j)
    \/ PassClose(j, outs)
    \/ BibtexClose(j)
    \/ CleanupImages(j)
    \/ CollectArtifact(j)

\* All steps of job j: a request arriving and a child's 'error' event are
\* the environment's.
JobNext(j, reqs, outs, codes) ==
    \/ authenticateApiKey(j, reqs)
    \/ PassError(j, codes)
    \/ BibtexError(j)
    \/ JobProgress(j, outs)

\* One request, with every outcome of every step.
Next == JobNext(1, AllRequests, PassOutcomes, ErrorCodes)

Spec == Init /\ [][Next]_vars

\* One request under the event loop's scheduling: a continuation that can run
\* does run, and every child that can close does close.
FairSpec == Spec /\ WF_vars(JobProgress(1, PassOutcomes))

\* const requestTimeout = 300000 (line 570), in milliseconds.
requestTimeout == 300000

\* The timeout option of the spawn of a child, 0 where the options have none:
\* the three lualatex runs are spawned with timeout: requestTimeout (574-577,
\* 636-639, 674-677), bibtex with { cwd: dirPath } only (614-616).
SpawnTimeout(name) == IF name \in Passes THEN requestTimeout ELSE 0

\* The child of job j is one that does not exit on its own.
NeverExits(j) ==
    /\ pc[j] \in Passes \cup { "bibtex" }
    /\ proc[j] = "running"
    /\ proc' = [proc EXCEPT ![j] = "hung"]
    /\ UNCHANGED << pc, req, stdout1, stdout2, stdout3, errors, warnings, errorInfo,
                    res, fs, hist, uncaught >>
    /\ UNCHANGED callVars

\* The timeout of the spawn options elapses on a child that has not exited:
\* the runtime kills it, and its 'close' resumes the handler as any other
\* 'close' does.
TimeoutKills(j) ==
    /\ pc[j] \in Passes \cup { "bibtex" }
    /\ proc[j] = "hung"
    /\ SpawnTimeout(pc[j]) > 0
    /\ UNCHANGED callVars
    /\ stdout1' = IF pc[j] = "lualatex1" THEN [stdout1 EXCEPT ![j] = @ \o Killed.out]
                  ELSE stdout1
    /\ stdout2' = IF pc[j] = "lualatex2" THEN [stdout2 EXCEPT ![j] = @ \o Killed.out]
                  ELSE stdout2
    /\ stdout3' = IF pc[j] = "lualatex3" THEN [stdout3 EXCEPT ![j] = @ \o Killed.out]
                  ELSE stdout3
    /\ IF pc[j] = "bibtex"
       THEN /\ AfterBibtex(j, Killed.code, << Ev("close", "bibtex", Killed.code) >>)
            /\ UNCHANGED fs
       ELSE /\ fs' = LualatexEffect(j, Killed)
            /\ AfterPass(j, pc[j], Killed.code, << Ev("close", pc[j], Killed.code) >>)
    /\ UNCHANGED << req, errorInfo, uncaught >>

\* One request whose children may be ones that never exit on their own.
HangNext ==
    \/ JobNext(1, AllRequests, PassOutcomes, ErrorCodes)
    \/ NeverExits(1)
    \/ TimeoutKills(1)

\* The event loop's scheduling, and a timer that is set does fire.
HangSpec ==
    /\ Init /\ [][HangNext]_vars
    /\ WF_vars(JobProgress(1, PassOutcomes))
    /\ WF_vars(TimeoutKills(1))

\* Requests in flight together, with a smaller choice of requests, outcomes
\* and error codes: the first request may carry a bibliography and images,
\* the others carry a source only.
ConcRequests ==
    { Request("secret", "string", << Seg("a", ".tex") >>, "string", TRUE, 1),
      Request("secret", "string", << Seg("x", ""), Seg("a", ".tex") >>, "string", FALSE, 0),
      Request("wrong", "string", << Seg("a", ".tex") >>, "string", FALSE, 0) }

PlainRequests ==
    { Request("secret", "string", f, "string", FALSE, 0) : f \in Filenames }

ConcOutcomes == { ExitClean }

ConcErrorCodes == { "ENOENT" }

ConcNext ==
    \/ JobNext(1, ConcRequests, ConcOutcomes, ConcErrorCodes)
    \/ \E j \in Jobs \ { 1 } : JobNext(j, PlainRequests, ConcOutcomes, ConcErrorCodes)

ConcSpec == Init /\ [][ConcNext]_vars

\* ------------------------------------------------- getDocWithRetry (part_002)
\* maxRetries = 3, the default of getDocWithRetry's second parameter.
DefaultMaxRetries == 3

\* The largest maxRetries a call is made with.
MaxRetriesBound == 4

\* The factor of the backoff delay, in ms.
BaseDelay == 1000

\* The documents fetched: the paper itself (a simple paper) or a section.
DocIds == { "paper", "section1", "section2" }

\* What one manager.getDocAsUpdate(docId) does: it resolves with an update or
\* with null, or it throws an error whose message includes '429', an error
\* with another message, or a value without a message.
FetchResults == { "update", "null", "429", "other", "nomessage" }

IsError(r) == r \in { "429", "other", "nomessage" }

\* Mutant of ShouldRetry: any error is retried.
ShouldRetryAny(error, attempt, maxRetries) == attempt < maxRetries

\* Mutant of ShouldRetry: a rate limit is retried after the last attempt
\* too.
ShouldRetryRateLimit(error, attempt, maxRetries) == error = "429"

\* error?.message?.includes('429') && attempt < maxRetries
ShouldRetry(error, attempt, maxRetries) == error = "429" /\ attempt < maxRetries

\* Mutant of BackoffDelay: the same delay before every retry.
ConstantDelay(attempt) == BaseDelay

\* Math.pow(2, attempt - 1) * 1000
BackoffDelay(attempt) == (2 ^ (attempt - 1)) * BaseDelay

\* A call getDocWithRetry(docId, maxRetries) about to enter its loop.
RetryCall(docId, maxRetries) ==
    [state |-> "called", docId |-> docId, maxRetries |-> maxRetries, attempt |-> 0,
     fetched |-> << >>, delays |-> << >>, result |-> "none", via |-> "none"]

RetryInit ==
    /\ ServerInit
    /\ variant = NoVariant
    /\ tasks = NoTasks
    /\ dl = NoDownload
    /\ client = NoClient
    /\ extract = NoExtract
    /\ parse = NoParse
    /\ retry \in { RetryCall(d, m) : d \in DocIds, m \in 0..MaxRetriesBound }

\* for (let attempt = 1; attempt <= maxRetries; ...): the first test of the
\* loop condition; a loop that is not entered falls through to return null.
EnterLoop ==
    /\ retry.state = "called"
    /\ retry' = IF 1 <= retry.maxRetries
                THEN [retry EXCEPT !.state = "fetching", !.attempt = 1]
                ELSE [retry EXCEPT !.state = "returned", !.result = "null",
                                   !.via = "return null"]
    /\ UNCHANGED << serverVars, dl, client, extract, parse, variant, tasks >>

\* One attempt: return await manager.getDocAsUpdate(docId), and the catch
\* block when it throws.
GetDocAsUpdate ==
    /\ retry.state = "fetching"
    /\ \E r \in FetchResults :
         retry' =
           IF ~IsError(r)
           THEN [retry EXCEPT !.fetched = Append(@, r), !.state = "returned", !.result = r,
                              !.via = "return await"]
           ELSE IF ShouldRetry(r, retry.attempt, retry.maxRetries)
           THEN [retry EXCEPT !.fetched = Append(@, r), !.state = "waiting",
                              !.delays = Append(@, BackoffDelay(retry.attempt))]
           ELSE [retry EXCEPT !.fetched = Append(@, r), !.state = "thrown", !.result = r,
                              !.via = "throw error"]
    /\ UNCHANGED << serverVars, dl, client, extract, parse, variant, tasks >>

\* The setTimeout of the backoff fires: continue, attempt++ and the test of
\* the loop condition; a loop that has ended falls through to return null
\* (line 244).
BackoffElapsed ==
    /\ retry.state = "waiting"
    /\ retry' = IF retry.attempt + 1 <= retry.maxRetries
                THEN [retry EXCEPT !.state = "fetching", !.attempt = @ + 1]
                ELSE [retry EXCEPT !.state = "returned", !.attempt = @ + 1,
                                   !.result = "null", !.via = "return null"]
    /\ UNCHANGED << serverVars, dl, client, extract, parse, variant, tasks >>

RetryNext == EnterLoop \/ GetDocAsUpdate \/ BackoffElapsed

RetrySpec == RetryInit /\ [][RetryNext]_vars

\* ------------------------------------------------ downloadImages (server.js)
\* The largest number of entries of imageReferences in a call.
MaxRefs == 2

\* One entry of imageReferences, by what its processing will meet first:
\*   "base64"       base64Data that decodes to bytes
\*   "emptyBase64"  base64Data that decodes to an empty buffer
\*   "url"          no base64Data: the url is fetched
\*   "null"         not an object: destructuring it throws
ImageKinds == { "base64", "emptyBase64", "url", "null" }

\* The states of one entry's promise still awaiting something.
Unsettled == { "fetching", "logging", "writing", "verifying" }

\* What await axios(...) gives (lines 347-354): an error (no connection, the
\* 30 s timeout, more than maxContentLength) or, since validateStatus is
\* false, a response of any status; its content-type header is a sequence
\* of pieces, empty when the header is missing.
Response(error, status, contentType) ==
    [received |-> TRUE, error |-> error, status |-> status, contentType |-> contentType]

NoResponse == [received |-> FALSE, error |-> FALSE, status |-> 0, contentType |-> << >>]

Responses ==
    { Response(TRUE, 0, << >>),
      Response(FALSE, 200, << "image/", "png" >>),
      Response(FALSE, 200, << "text/", "html" >>),
      Response(FALSE, 200, << >>),
      Response(FALSE, 200, << "Image/", "PNG" >>),
      Response(FALSE, 404, << "image/", "png" >>),
      Response(FALSE, 404, << "text/", "html" >>) }

\* responseContentType && responseContentType.startsWith("image/")
StartsWithImage(contentType) == contentType # << >> /\ contentType[1] = "image/"

\* Mutant of AfterResponse: the content type is not looked at.
AfterResponseAnyType(response) ==
    IF response.error \/ response.status # 200 THEN "failed" ELSE "writing"

\* Lines 347-393: what the callback does with the outcome of its request:
\* an error or a status other than 200 throws into the catch block, a
\* content type that is no image makes it write the error log, anything
\* else makes it write the image.
AfterResponse(response) ==
    IF response.error \/ response.status # 200 THEN "failed"
    ELSE IF ~StartsWithImage(response.contentType) THEN "logging"
    ELSE "writing"

\* downloadImages(imageReferences, targetDir) about to run.
DownloadCall(refs) ==
    [state |-> "called", imageReferences |-> refs,
     img |-> [i \in DOMAIN refs |-> "pending"], successful |-> 0, failed |-> 0,
     response |-> [i \in DOMAIN refs |-> NoResponse],
     assets |-> [i \in DOMAIN refs |-> FALSE],
     errorLogs |-> [i \in DOMAIN refs |-> FALSE]]

DownloadInit ==
    /\ ServerInit
    /\ variant = NoVariant
    /\ tasks = NoTasks
    /\ retry = NoRetry
    /\ client = NoClient
    /\ extract = NoExtract
    /\ parse = NoParse
    /\ dl \in { DownloadCall(refs) : refs \in UNION { [1..n -> ImageKinds] : n \in 0..MaxRefs } }

\* The synchronous start of one entry's async callback (lines 274-300): where
\* it first awaits, or how it settles without awaiting.
FirstAwait(kind) ==
    CASE kind = "base64" -> "writing"
      [] kind = "emptyBase64" -> "failed"
      [] kind = "url" -> "fetching"
      [] kind = "null" -> "rejected"

\* results.filter((r) => r.status === "fulfilled" && r.value.success).length
Successful(img) == Cardinality({ i \in DOMAIN img : img[i] = "ok" })

\* results.filter((r) => r.status === "rejected" || ... !r.value.success).length
Failed(img) == Cardinality({ i \in DOMAIN img : img[i] \in { "failed", "rejected" } })

\* Mutant of AllSettled: Promise.all, which rejects when a promise rejects.
AllOrReject(img) ==
    IF \E i \in DOMAIN img : img[i] = "rejected" THEN "thrown" ELSE "returned"

\* await Promise.allSettled(processPromises): never rejects.
AllSettled(img) == "returned"

\* Lines 251-254: with no entries, return { successful: 0, failed: 0 }.
DownloadEntry ==
    /\ dl.state = "called"
    /\ dl' = IF Len(dl.imageReferences) = 0
             THEN [dl EXCEPT !.state = "returned"]
             ELSE [dl EXCEPT !.state = "mkdirp"]
    /\ UNCHANGED << serverVars, retry, client, extract, parse, variant, tasks >>

\* Lines 261-431: await fs.mkdirp(imagesDir), which may reject, and then
\* Object.entries(imageReferences).map(async ...): every callback is started
\* in the one synchronous map.
ProcessPromises ==
    /\ dl.state = "mkdirp"
    /\ \/ dl' = [dl EXCEPT !.state = "thrown"]
       \/ dl' = [dl EXCEPT !.state = "allSettled",
                           !.img = [i \in DOMAIN dl.img |-> FirstAwait(dl.imageReferences[i])]]
    /\ UNCHANGED << serverVars, retry, client, extract, parse, variant, tasks >>

\* One callback resumes after an await (lines 300-428).  After the request:
\* see AfterResponse.  After the write of the error log (380-386), done or
\* not: the throw of line 387.  After the write of the image to outputPath,
\* which may fail and may then have created the file or not: with base64
\* data the verification (318-319), else success (393-404).  After the
\* verification: success, or the catch block if pathExists or stat fails.
ProcessImage(i) ==
    /\ dl.state = "allSettled"
    /\ dl.img[i] \in Unsettled
    /\ \/ /\ dl.img[i] = "fetching"
          /\ \E response \in Responses :
               dl' = [dl EXCEPT !.img[i] = AfterResponse(response),
                                !.response[i] = response]
       \/ /\ dl.img[i] = "logging"
          /\ \E written \in BOOLEAN :
               dl' = [dl EXCEPT !.img[i] = "failed", !.errorLogs[i] = written]
       \/ /\ dl.img[i] = "writing"
          /\ \/ dl' = [dl EXCEPT !.assets[i] = TRUE,
                                 !.img[i] = IF dl.imageReferences[i] = "base64"
                                            THEN "verifying" ELSE "ok"]
             \/ \E created \in BOOLEAN :
                  dl' = [dl EXCEPT !.img[i] = "failed", !.assets[i] = created]
       \/ /\ dl.img[i] = "verifying"
          /\ \E to \in { "ok", "failed" } : dl' = [dl EXCEPT !.img[i] = to]
    /\ UNCHANGED << serverVars, retry, client, extract, parse, variant, tasks >>

\* Lines 433-455: the join, the listing of the directory (its error is
\* caught) and the summary.
DownloadJoin ==
    /\ dl.state = "allSettled"
    /\ \A i \in DOMAIN dl.img : dl.img[i] \notin Unsettled
    /\ dl' = [dl EXCEPT !.state = AllSettled(dl.img),
                        !.successful = Successful(dl.img),
                        !.failed = Failed(dl.img)]
    /\ UNCHANGED << serverVars, retry, client, extract, parse, variant, tasks >>

DownloadNext ==
    \/ DownloadEntry
    \/ ProcessPromises
    \/ \E i \in DOMAIN dl.img : ProcessImage(i)
    \/ DownloadJoin

DownloadSpec == DownloadInit /\ [][DownloadNext]_vars

\* ------------------------------------------- the export route (part_002)
\* The largest number of sections of a paper, and of blocks of a paper.
MaxSections == 2

MaxBlocks == 2

\* An image URL: whether new URL(imageUrl) parses it, its protocol and the
\* text after the last '.' of its pathname.  NoUrl is a missing imageUrl.
Url(present, parses, protocol, extension) ==
    [present |-> present, parses |-> parses, protocol |-> protocol, extension |-> extension]

NoUrl == Url(FALSE, FALSE, "", "")

\* A block of a section's content; an imageId is a sequence of characters,
\* the empty one standing for a missing id.
Block(type, imageId, imageUrl) == [type |-> type, imageId |-> imageId, imageUrl |-> imageUrl]

Blocks ==
    { Block("paragraph", << >>, NoUrl),
      Block("imageBlock", << "a" >>, Url(TRUE, TRUE, "https:", "png")),
      Block("imageblock", << "b", "-" >>, Url(TRUE, TRUE, "http:", "gif")),
      Block("imageBlock", << "b", "_" >>, Url(TRUE, TRUE, "https:", "PNG")),
      Block("imageBlock", << "a" >>, Url(TRUE, TRUE, "ftp:", "png")),
      Block("imageBlock", << "a" >>, Url(TRUE, FALSE, "", "")),
      Block("imageBlock", << >>, Url(TRUE, TRUE, "https:", "png")),
      Block("imageBlock", << "a" >>, NoUrl) }

\* A section: isArray says whether section.content is an array.
Section(name, isArray, content) == [name |-> name, isArray |-> isArray, content |-> content]

SectionNames == << "s1", "s2", "s3" >>

\* The contents of at most max blocks.
Contents(max) == UNION { [1..n -> Blocks] : n \in 0..max }

\* The sections of at most max blocks: one without a content array, or one
\* with a content of blocks.
Sections(name, max) ==
    { Section(name, FALSE, << >>) } \cup { Section(name, TRUE, c) : c \in Contents(max) }

\* The number of blocks of a paper.
RECURSIVE BlockCount(_)
BlockCount(sections) ==
    IF sections = << >> THEN 0
    ELSE Len(Head(sections).content) + BlockCount(Tail(sections))

\* The papers of n sections.
RECURSIVE PapersOf(_)
PapersOf(n) ==
    IF n = 0 THEN { << >> }
    ELSE UNION { { Append(p, sec) : sec \in Sections(SectionNames[n], MaxBlocks - BlockCount(p)) }
                 : p \in PapersOf(n - 1) }

\* The sectionsWithContent a paper may have.
Papers == UNION { PapersOf(n) : n \in 0..MaxSections }

\* The sectionsWithContent of a simple paper (lines 477-481): one section
\* holding the whole content.
SimplePapers == { p \in Papers : Len(p) = 1 /\ p[1].isArray }

AlphaNum == { "a", "b" }

\* imageId.replace(/[^a-zA-Z0-9]/g, '_')
SafeId(imageId) ==
    [i \in DOMAIN imageId |-> IF imageId[i] \in AlphaNum THEN imageId[i] ELSE "_"]

\* extension.toLowerCase()
ToLowerCase(extension) == IF extension = "PNG" THEN "png" ELSE extension

\* Lines 280-291: the extension of the URL's pathname if it is one of jpg,
\* jpeg, png, pdf (in any case), else 'jpg'.
FileExtension(url) ==
    IF url.parses /\ url.extension # ""
          /\ ToLowerCase(url.extension) \in { "jpg", "jpeg", "png", "pdf" }
    THEN url.extension ELSE "jpg"

\* Mutant of IsValidUrl: every URL that parses is taken.
IsParsedUrl(url) == url.parses

\* Lines 293-300: the URL parses and is http: or https:
IsValidUrl(url) == url.parses /\ url.protocol \in { "http:", "https:" }

\* An entry of the mapping (lines 303-309), with the fields the fetcher may
\* add still missing.
ImageRef(block, section) ==
    [id |-> block.imageId, url |-> block.imageUrl,
     filename |-> << SafeId(block.imageId), FileExtension(block.imageUrl) >>,
     section |-> section, base64Data |-> "none", contentType |-> "none",
     originalSize |-> 0, compressedSize |-> 0]

\* Mutant of Put: a key that is already there keeps its value.
PutIfAbsent(refs, key, value) ==
    [k \in DOMAIN refs \cup { key } |-> IF k \in DOMAIN refs THEN refs[k] ELSE value]

\* refs[key] = value on a mapping
Put(refs, key, value) ==
    [k \in DOMAIN refs \cup { key } |-> IF k = key THEN value ELSE refs[k]]

\* The empty mapping {}.
NoRefs == << >>

IsImageBlock(block) == block.type \in { "imageBlock", "imageblock" }

\* imageBlocks.forEach of one section (lines 266-315).
RECURSIVE CollectBlocks(_, _, _)
CollectBlocks(refs, blocks, section) ==
    IF blocks = << >> THEN refs
    ELSE LET b == Head(blocks)
             next == IF /\ IsImageBlock(b)
                        /\ b.imageId # << >> /\ b.imageUrl.present
                        /\ IsValidUrl(b.imageUrl)
                     THEN Put(refs, SafeId(b.imageId), ImageRef(b, section))
                     ELSE refs
         IN  CollectBlocks(next, Tail(blocks), section)

\* sections.forEach (lines 252-316): a section whose content is no array is
\* skipped.
RECURSIVE CollectSections(_, _)
CollectSections(refs, sections) ==
    IF sections = << >> THEN refs
    ELSE CollectSections(IF Head(sections).isArray
                         THEN CollectBlocks(refs, Head(sections).content, Head(sections).name)
                         ELSE refs,
                         Tail(sections))

collectImageReferences(sections) == CollectSections(NoRefs, sections)

\* A console.warn or console.error of the collector, for the block at one
\* position of one section's content.
Diagnostic(section, block, level, message) ==
    [section |-> section, block |-> block, level |-> level, message |-> message]

\* What one image block makes the collector write (lines 269-313): one
\* warning for a missing id or URL; for a URL that new URL() rejects, the
\* warning of the extension's catch, the error of the validation's catch
\* and the warning of the else branch; for another protocol, the warning of
\* the else branch alone.
BlockDiagnostics(b, section, i) ==
    IF b.imageId = << >> \/ ~b.imageUrl.present
    THEN << Diagnostic(section, i, "warn", "missing ID or URL") >>
    ELSE (IF b.imageUrl.parses THEN << >>
          ELSE << Diagnostic(section, i, "warn", "Could not parse URL for extension"),
                  Diagnostic(section, i, "error", "Invalid image URL format") >>)
         \o (IF IsValidUrl(b.imageUrl) THEN << >>
             ELSE << Diagnostic(section, i, "warn", "Skipping invalid image URL") >>)

\* The warnings and errors of one section's image blocks, from block i on.
RECURSIVE SectionDiagnostics(_, _)
SectionDiagnostics(section, i) ==
    IF ~section.isArray \/ i > Len(section.content) THEN << >>
    ELSE (IF IsImageBlock(section.content[i])
          THEN BlockDiagnostics(section.content[i], section.name, i) ELSE << >>)
         \o SectionDiagnostics(section, i + 1)

\* The warnings and errors of one call of collectImageReferences.
RECURSIVE CollectorDiagnostics(_)
CollectorDiagnostics(sections) ==
    IF sections = << >> THEN << >>
    ELSE SectionDiagnostics(Head(sections), 1) \o CollectorDiagnostics(Tail(sections))

\* const MAX_IMAGE_SIZE_MB = 2, and the sizes of the blobs a fetch gives, in
\* MB: at the threshold and above it.
MAX_IMAGE_SIZE_MB == 2

BlobSizes == { MAX_IMAGE_SIZE_MB, MAX_IMAGE_SIZE_MB + 1 }

\* Mutant of NeedsCompression: a blob at the threshold is compressed too.
NeedsCompressionFrom(size) == size >= MAX_IMAGE_SIZE_MB

\* imageSizeMB > MAX_IMAGE_SIZE_MB (line 348)
NeedsCompression(size) == size > MAX_IMAGE_SIZE_MB

\* { ...image, base64Data, contentType } and, after a compression,
\* originalSize: imageBlob.size and compressedSize: compressedBlob.size
\* (lines 370-375, 383-387, 394-398); 0 stands for a size that is not set.
WithPayload(image, compressed, size) ==
    [image EXCEPT !.base64Data = "base64", !.contentType = "image",
                  !.originalSize = IF compressed THEN size ELSE 0,
                  !.compressedSize = IF compressed THEN 1 ELSE 0]

\* Mutant of KeepReference: the failed reference is deleted.
DropReference(refs, key) == [k \in DOMAIN refs \ { key } |-> refs[k]]

\* The catch block of one image (lines 402-405): the reference is kept as it
\* is.
KeepReference(refs, key) == refs

\* Mutant of RequestImages: the collected references are sent.
CollectedImages(c) == c.imageReferences

\* imageReferences: downloadedImages (line 609)
RequestImages(c) == c.updatedImageRefs

\* The path parameter's default, 'mdpi/template.tex'.
ClientFilename == << Seg("mdpi", ""), Seg("template", ".tex") >>

\* A GET with format=pdf that has its sectionsWithContent.
ClientCall(sections) ==
    [state |-> "called", sections |-> sections, imageReferences |-> NoRefs,
     updatedImageRefs |-> NoRefs, img |-> << >>, fetches |-> << >>, updates |-> << >>,
     diagnostics |-> << >>, size |-> << >>, compressions |-> << >>,
     answer |-> [status |-> 0, body |-> Absent, why |-> "none"]]

ClientInit ==
    /\ ServerInit
    /\ variant = NoVariant
    /\ tasks = NoTasks
    /\ retry = NoRetry
    /\ dl = NoDownload
    /\ extract = NoExtract
    /\ parse = NoParse
    /\ client \in { ClientCall(p) : p \in Papers }

\* const imageReferences = collectImageReferences(sectionsWithContent),
\* then downloadAndEncodeImages up to its await (lines 589-597, 322-329):
\* the copy is made and every key's callback is started and awaits its
\* fetch.
CollectAndStart ==
    /\ client.state = "called"
    /\ LET refs == collectImageReferences(client.sections) IN
       client' = [client EXCEPT !.state = "downloading",
                                !.imageReferences = refs,
                                !.updatedImageRefs = refs,
                                !.img = [k \in DOMAIN refs |-> "fetching"],
                                !.fetches = [k \in DOMAIN refs |-> 1],
                                !.updates = [k \in DOMAIN refs |-> 0],
                                !.size = [k \in DOMAIN refs |-> 0],
                                !.compressions = [k \in DOMAIN refs |-> 0],
                                !.diagnostics = CollectorDiagnostics(client.sections)]
    /\ UNCHANGED << serverVars, retry, dl, extract, parse, variant, tasks >>

\* One image's callback resumes after an await (lines 330-405).
\*   fetching: fetch rejects, answers not ok or blob() rejects (caught by
\*     the outer catch), or gives a blob, which is encoded as it is or, if
\*     it is larger than the threshold, handed to imageCompression;
\*   compressing: imageCompression resolves, and the compressed blob is
\*     encoded, or rejects into the inner catch, which encodes the original;
\*   encodingCompressed: blobToBase64 resolves and the reference gets its
\*     payload and sizes, or rejects into the inner catch;
\*   encoding, fallback: blobToBase64 of the original blob resolves and the
\*     reference gets its payload, or rejects into the outer catch.
FetchImage(key) ==
    /\ client.state = "downloading"
    /\ key \in DOMAIN client.img
    /\ \/ /\ client.img[key] = "fetching"
          /\ \/ client' = [client EXCEPT !.img[key] = "failed",
                                         !.updatedImageRefs = KeepReference(@, key)]
             \/ \E size \in BlobSizes :
                  client' = [client EXCEPT
                               !.size[key] = size,
                               !.img[key] = IF NeedsCompression(size) THEN "compressing"
                                            ELSE "encoding",
                               !.compressions[key] = IF NeedsCompression(size) THEN 1 ELSE 0]
       \/ /\ client.img[key] = "compressing"
          /\ \E to \in { "encodingCompressed", "fallback" } :
               client' = [client EXCEPT !.img[key] = to]
       \/ /\ client.img[key] = "encodingCompressed"
          /\ \/ client' = [client EXCEPT
                             !.img[key] = "resolved",
                             !.updates[key] = @ + 1,
                             !.updatedImageRefs =
                                 Put(@, key, WithPayload(client.imageReferences[key], TRUE,
                                                         client.size[key]))]
             \/ client' = [client EXCEPT !.img[key] = "fallback"]
       \/ /\ client.img[key] \in { "encoding", "fallback" }
          /\ \/ client' = [client EXCEPT
                             !.img[key] = "resolved",
                             !.updates[key] = @ + 1,
                             !.updatedImageRefs =
                                 Put(@, key, WithPayload(client.imageReferences[key], FALSE,
                                                         client.size[key]))]
             \/ client' = [client EXCEPT
                             !.img[key] = "failed",
                             !.updatedImageRefs = KeepReference(@, key)]
    /\ UNCHANGED << serverVars, retry, dl, extract, parse, variant, tasks >>

\* await Promise.all(...) resolves and the compilation request is built and
\* sent (lines 597-625).
PostCompile ==
    /\ client.state = "downloading"
    /\ \A k \in DOMAIN client.img : client.img[k] \in { "resolved", "failed" }
    /\ client' = [client EXCEPT !.state = "posted"]
    /\ UNCHANGED << serverVars, retry, dl, extract, parse, variant, tasks >>

\* The request the compile service receives from the route: its
\* imageReferences is the mapping sent, here by its number of entries.
ClientRequests ==
    IF client.state = "posted"
    THEN { Request(LATEX_SERVICE_API_KEY, "string", ClientFilename, "string", TRUE,
                   Cardinality(DOMAIN RequestImages(client))) }
    ELSE { }

\* The route from its sections to its compilation request.
ClientNext ==
    \/ CollectAndStart
    \/ \E key \in DOMAIN client.img : FetchImage(key)
    \/ PostCompile

ClientSpec == ClientInit /\ [][ClientNext]_vars

\* response.headers.get('content-type') includes 'application/json' (lines
\* 640-641): true of the service's res.json(...) answers, false of its
\* res.send(pdfBuffer) with Content-Type application/pdf.
IsJsonResponse(response) == response.body = Absent

\* responseData.pdf (line 672): no JSON answer of the compile service has a
\* pdf field.
HasPdfField(response) == FALSE

\* What the route answers its caller for a response of the compile service
\* (lines 639-741): the PDF for a JSON body with a pdf field, else the 500 of
\* its catch block.
RouteAnswer(response) ==
    IF ~IsJsonResponse(response)
    THEN [status |-> 500, body |-> Absent, why |-> "non-JSON response"]
    ELSE IF HasPdfField(response)
    THEN [status |-> 200, body |-> response.body, why |-> "pdf"]
    ELSE [status |-> 500, body |-> Absent, why |-> "no pdf"]

\* The service has answered the compilation request: the route handles the
\* response and answers its caller.
HandleCompileResponse ==
    /\ client.state = "posted"
    /\ pc[1] = "done" /\ res[1] # << >>
    /\ client' = [client EXCEPT !.state = "answered", !.answer = RouteAnswer(res[1][1])]
    /\ UNCHANGED << serverVars, retry, dl, extract, parse, variant, tasks >>

\* await fetch(...) rejects (line 624): the service is not reached, and the
\* catch block answers 500.
CompileUnreachable ==
    /\ client.state = "posted"
    /\ pc[1] = "idle"
    /\ client' = [client EXCEPT !.state = "answered",
                                !.answer = [status |-> 500, body |-> Absent, why |-> "fetch failed"]]
    /\ UNCHANGED << serverVars, retry, dl, extract, parse, variant, tasks >>

\* The simple papers sent through the compile service, each of which is
\* followed through every step of its job: those of fewer than MaxBlocks
\* image blocks.
PipelinePapers ==
    { p \in SimplePapers :
        Cardinality({ i \in DOMAIN p[1].content : IsImageBlock(p[1].content[i]) }) < MaxBlocks }

\* The route for a simple paper together with the compile service that
\* receives its request.
PipelineInit ==
    /\ ServerInit
    /\ variant = NoVariant
    /\ tasks = NoTasks
    /\ retry = NoRetry
    /\ dl = NoDownload
    /\ extract = NoExtract
    /\ parse = NoParse
    /\ client \in { ClientCall(p) : p \in PipelinePapers }

PipelineNext ==
    \/ ClientNext
    \/ JobNext(1, ClientRequests, ConcOutcomes, ConcErrorCodes)
    \/ HandleCompileResponse
    \/ CompileUnreachable

PipelineSpec == PipelineInit /\ [][PipelineNext]_vars

\* ------------------------------------------- extractContent (part_002)
\* The largest number of block containers under the root block group, and
\* of calls of extractContent on one fragment.
MaxContainers == 2

MaxExtractions == 2

\* The nodes of the parsed fragment.  A text is a sequence of pieces; attr
\* is the value of the one attribute the extraction reads of the element
\* (tableName, sourceName, level, imageId), "" when it is missing.
TextNode(text) ==
    [nodeType |-> 3, tagName |-> "#text", attr |-> "", text |-> text, childNodes |-> << >>]

Element(tagName, attr, childNodes) ==
    [nodeType |-> 1, tagName |-> tagName, attr |-> attr, text |-> << >>,
     childNodes |-> childNodes]

CommentNode ==
    [nodeType |-> 8, tagName |-> "#comment", attr |-> "", text |-> << >>, childNodes |-> << >>]

\* tagName.toLowerCase()
TagToLowerCase(tagName) ==
    CASE tagName = "Bold" -> "bold"
      [] tagName = "SourceMention" -> "sourcemention"
      [] OTHER -> tagName

\* An item of a block's content.  The items extractContent makes itself
\* have no styles property (hasStyles is FALSE).
Run(text, styles, hasStyles) ==
    [type |-> "text", text |-> text, styles |-> styles, hasStyles |-> hasStyles]

StyleTags == { "bold", "italic", "underline" }

RECURSIVE processStyledNode(_, _)
RECURSIVE StyledChildren(_, _)
\* The flatMap over el.childNodes (lines 23-34).
StyledChildren(childNodes, styles) ==
    IF childNodes = << >> THEN << >>
    ELSE LET child == Head(childNodes) IN
         (IF child.nodeType = 3 THEN << Run(child.text, styles, TRUE) >>
          ELSE IF child.nodeType = 1 THEN processStyledNode(child, styles)
          ELSE << >>)
         \o StyledChildren(Tail(childNodes), styles)

\* Mutant of processStyledNode: the element's own style is not pushed.
processStyledNodeUnstyled(el, currentStyles) == StyledChildren(el.childNodes, currentStyles)

\* Lines 14-35: a copy of the current styles, with the element's tag pushed
\* if it is bold, italic or underline.
processStyledNode(el, currentStyles) ==
    LET nodeType == TagToLowerCase(el.tagName)
        styles == IF nodeType \in StyleTags THEN Append(currentStyles, nodeType)
                  ELSE currentStyles
    IN  StyledChildren(el.childNodes, styles)

\* node.getElementsByTagName(tagName): the descendant elements of that
\* name, in document order.
RECURSIVE DescendantsOf(_, _)
DescendantsOf(nodes, tagName) ==
    IF nodes = << >> THEN << >>
    ELSE LET n == Head(nodes) IN
         (IF n.nodeType = 1 /\ n.tagName = tagName THEN << n >> ELSE << >>)
         \o DescendantsOf(n.childNodes, tagName)
         \o DescendantsOf(Tail(nodes), tagName)

getElementsByTagName(node, tagName) == DescendantsOf(node.childNodes, tagName)

\* parseInt of a level attribute.
ParseInt(attr) ==
    CASE attr \in { "1", "01" } -> "1"
      [] attr \in { "2", "2px" } -> "2"
      [] attr = "0" -> "0"
      [] OTHER -> "NaN"

\* The block descriptors, and the null of a container that gives none.
BlockDescriptor(type, level, imageId, content) ==
    [type |-> type, level |-> level, imageId |-> imageId, content |-> content]

NullBlock == BlockDescriptor("null", "", "", << >>)

\* The map over child.childNodes (lines 142-174).
RECURSIVE InlineContent(_)
InlineContent(childNodes) ==
    IF childNodes = << >> THEN << >>
    ELSE LET node == Head(childNodes)
             tagName == TagToLowerCase(node.tagName)
         IN  (IF node.nodeType = 3 THEN << Run(node.text, << >>, FALSE) >>
              ELSE IF node.nodeType = 1
                   THEN IF tagName = "tablemention"
                        THEN << Run(<< "\\ref{", node.attr, "}" >>, << >>, FALSE) >>
                        ELSE IF tagName = "sourcemention"
                        THEN << Run(<< "\\cite{", node.attr, "}" >>, << >>, FALSE) >>
                        ELSE processStyledNode(node, << >>)
                   ELSE << >>)
             \o InlineContent(Tail(childNodes))

\* The callback of blockContainers.map (lines 112-199).
ContainerBlock(container) ==
    LET imageBlocks == getElementsByTagName(container, "imageblock")
        paragraphs == getElementsByTagName(container, "paragraph")
        headings == getElementsByTagName(container, "heading")
    IN  IF imageBlocks # << >>
        THEN BlockDescriptor("imageBlock", "", imageBlocks[1].attr, << >>)
        ELSE IF paragraphs # << >>
        THEN BlockDescriptor("paragraph", "", "", InlineContent(paragraphs[1].childNodes))
        ELSE IF headings # << >>
        THEN BlockDescriptor("heading",
                             ParseInt(IF headings[1].attr = "" THEN "1" ELSE headings[1].attr),
                             "", InlineContent(headings[1].childNodes))
        ELSE NullBlock

\* Array.from(blockgroup.getElementsByTagName('blockcontainer')) of the
\* first block group (lines 77-86), none without a block group.
blockContainers(fragment) ==
    LET blockgroups == getElementsByTagName(fragment, "blockgroup") IN
    IF blockgroups = << >> THEN << >>
    ELSE getElementsByTagName(blockgroups[1], "blockcontainer")

\* blockContainers.map(...) before the filter.
MappedBlocks(fragment) ==
    [i \in DOMAIN blockContainers(fragment) |-> ContainerBlock(blockContainers(fragment)[i])]

\* .filter(Boolean)
RECURSIVE FilterBoolean(_)
FilterBoolean(blocks) ==
    IF blocks = << >> THEN << >>
    ELSE (IF Head(blocks) = NullBlock THEN << >> ELSE << Head(blocks) >>)
         \o FilterBoolean(Tail(blocks))

\* Mutant of extractContent: without logging nothing is extracted.
extractContentIfLogging(fragment, enableLogging) ==
    IF enableLogging THEN FilterBoolean(MappedBlocks(fragment)) ELSE << >>

\* The blocks extractContent returns (lines 38-226); the section id only
\* names the log files.
extractContent(fragment, enableLogging) == FilterBoolean(MappedBlocks(fragment))

\* The console.warn and console.error calls of one extraction: the warning
\* of a missing block group (line 80).  The map's callback writes none for a
\* container it returns null for (line 136).
ExtractDiagnostics(fragment) ==
    IF getElementsByTagName(fragment, "blockgroup") = << >>
    THEN << [container |-> 0, level |-> "warn", message |-> "No blockgroup found"] >>
    ELSE << >>

\* The log files one extraction starts to write (lines 48-72, 89-110,
\* 202-223).
LogWrites(fragment, enableLogging) ==
    IF ~enableLogging THEN 0
    ELSE IF getElementsByTagName(fragment, "blockgroup") = << >> THEN 1 ELSE 3

\* The inline contents of a paragraph or heading.
InlineContents ==
    { << >>,
      << TextNode(<< "x" >>) >>,
      << Element("bold", "", << Element("italic", "", << TextNode(<< "x" >>) >>) >>) >>,
      << Element("Bold", "", << Element("italic", "", << TextNode(<< "x" >>) >>),
                                TextNode(<< "y" >>) >>),
         TextNode(<< "z" >>) >>,
      << Element("link", "", << TextNode(<< "x" >>), CommentNode >>),
         Element("underline", "", << TextNode(<< "y" >>) >>) >>,
      << Element("sourcemention", "Smith2020", << >>) >>,
      << TextNode(<< "x" >>), Element("tablemention", "T1", << >>),
         Element("SourceMention", "Smith2020", << >>) >>,
      << Element("bold", "", << Element("sourcemention", "Smith2020", << >>) >>) >> }

\* The elements a block container holds first.
InnerElements ==
    { Element("paragraph", "", c) : c \in InlineContents }
    \cup { Element("heading", l, << TextNode(<< "Intro" >>) >>) : l \in { "", "2", "0", "abc" } }
    \cup { Element("imageblock", "img1", << >>), Element("table", "", << >>) }

\* The block containers: empty, with one inner element, and with a nested
\* block group after it.
NestedGroup == Element("blockgroup", "", << Element("blockcontainer", "", << Element("paragraph", "", << TextNode(<< "y" >>) >>) >>) >>)

\* A block group of one container holding an image block.
NestedImageGroup == Element("blockgroup", "", << Element("blockcontainer", "", << Element("imageblock", "img2", << >>) >>) >>)

Containers ==
    { Element("blockcontainer", "", << >>) }
    \cup { Element("blockcontainer", "", << e >>) : e \in InnerElements }
    \cup { Element("blockcontainer", "", << e, NestedGroup >>) :
             e \in { Element("paragraph", "", << TextNode(<< "x" >>) >>),
                     Element("table", "", << >>) } }
    \cup { Element("blockcontainer", "",
                   << Element("paragraph", "", << TextNode(<< "x" >>) >>), NestedImageGroup >>) }

\* The parsed fragments: without a block group, or with one of at most
\* MaxContainers containers.
Fragments ==
    { Element("#document", "", << >>),
      Element("#document", "", << Element("paragraph", "", << TextNode(<< "x" >>) >>) >>) }
    \cup { Element("#document", "", << Element("blockgroup", "", cs) >>) :
             cs \in UNION { [1..n -> Containers] : n \in 0..MaxContainers } }

ExtractInit ==
    /\ ServerInit
    /\ variant = NoVariant
    /\ tasks = NoTasks
    /\ retry = NoRetry
    /\ dl = NoDownload
    /\ client = NoClient
    /\ parse = NoParse
    /\ extract \in { [state |-> "ready", fragment |-> f, calls |-> << >>] : f \in Fragments }

\* One call extractContent(ydoc, sectionId, enableLogging).
ExtractContent(enableLogging) ==
    /\ extract.state = "ready"
    /\ Len(extract.calls) < MaxExtractions
    /\ extract' = [extract EXCEPT !.calls = Append(@,
                     [enableLogging |-> enableLogging,
                      mapped |-> MappedBlocks(extract.fragment),
                      blocks |-> extractContent(extract.fragment, enableLogging),
                      diagnostics |-> ExtractDiagnostics(extract.fragment),
                      logWrites |-> LogWrites(extract.fragment, enableLogging)])]
    /\ UNCHANGED << serverVars, retry, dl, client, parse, variant, tasks >>

ExtractNext == \E enableLogging \in BOOLEAN : ExtractContent(enableLogging)

ExtractSpec == ExtractInit /\ [][ExtractNext]_vars

\* ------------------------------------------- parseLatexErrors (server.js)
\* The largest number of lines of a parsed text.
MaxLogLines == 3

\* The texts of at most MaxLogLines lines.
LogContents == UNION { [1..n -> Lines] : n \in 0..MaxLogLines }

ParseInit ==
    /\ ServerInit
    /\ variant = NoVariant
    /\ tasks = NoTasks
    /\ retry = NoRetry
    /\ dl = NoDownload
    /\ client = NoClient
    /\ extract = NoExtract
    /\ parse \in { [state |-> "called", logContent |-> t, result |-> << >>] : t \in LogContents }

\* One call parseLatexErrors(logContent): both loops run to their end and
\* the array is returned.
ParseLatexErrors ==
    /\ parse.state = "called"
    /\ parse' = [parse EXCEPT !.state = "returned",
                              !.result = parseLatexErrors(parse.logContent)]
    /\ UNCHANGED << serverVars, retry, dl, client, extract, variant, tasks >>

ParseNext == ParseLatexErrors

ParseSpec == ParseInit /\ [][ParseNext]_vars

\* ------------------------------------ the two-pass handler (unnamed/part_004)
\* app.post("/compile", ...) of the variant that runs pdflatex twice and
\* answers with JSON (lines 64-125).  variant.pdf is the PDF file at pdfPath,
\* which stays in the directory from one request to the next.
MaxCompiles == 3

\* The responses of the handler: lines 108-113 and 120-123.
VariantSuccess ==
    [status |-> 200, success |-> TRUE, pdf |-> TRUE, error |-> "", details |-> ""]

VariantFailure(details) ==
    [status |-> 500, success |-> FALSE, pdf |-> FALSE,
     error |-> "PDF compilation failed", details |-> details]

\* Whether the name stdout is bound at line 111.  It is declared by let in
\* the body of the for loop (line 87) and by nothing else in the module, so
\* outside the loop the name is unbound and evaluating it throws a
\* ReferenceError.
StdoutInScope == FALSE

\* What pdflatex leaves at pdfPath: a clean exit writes the PDF; any other
\* exit may leave a PDF, a truncated one of no bytes, or the file as it was.
PdfAfter(pdf, code) ==
    IF code = 0 THEN { "full" } ELSE { "full", "empty", pdf }

\* A request arrives (lines 66-72): the source is written, or mkdirp or
\* writeFile rejects and the outer catch answers 500; then the first
\* pdflatex is spawned (line 76) and the handler awaits its 'close'.
VariantRequest ==
    /\ variant.state \in { "idle", "ended" }
    /\ ~variant.crashed
    /\ variant.served < MaxCompiles
    /\ \E written \in BOOLEAN :
         variant' = [variant EXCEPT
                       !.state = IF written THEN "pdflatex" ELSE "ended",
                       !.i = 0,
                       !.codes = << >>,
                       !.read = "none",
                       !.res = IF written THEN << >>
                               ELSE << VariantFailure("write failed") >>,
                       !.served = @ + 1]
    /\ UNCHANGED << serverVars, retry, dl, client, extract, parse, tasks >>

\* pdflatex closes (line 98), with any exit code: i++ and either the second
\* run is spawned or the loop ends and the handler awaits readFile (105).
PdflatexClose ==
    /\ variant.state = "pdflatex"
    /\ \E code \in { 0, 1 } : \E pdf \in PdfAfter(variant.pdf, code) :
         variant' = [variant EXCEPT
                       !.state = IF variant.i + 1 < 2 THEN "pdflatex" ELSE "reading",
                       !.i = @ + 1,
                       !.pdf = pdf,
                       !.codes = Append(@, code)]
    /\ UNCHANGED << serverVars, retry, dl, client, extract, parse, tasks >>

\* pdflatex emits 'error' (it could not be started).  No 'error' listener is
\* registered on the child (lines 76-98) and the module has no
\* uncaughtException handler: the emit throws and the process exits, with
\* the request unanswered.
PdflatexError ==
    /\ variant.state = "pdflatex"
    /\ variant' = [variant EXCEPT !.state = "ended", !.crashed = TRUE]
    /\ UNCHANGED << serverVars, retry, dl, client, extract, parse, tasks >>

\* The continuation of readFile (lines 105-124).  A rejected read is caught
\* at 115, which throws into the outer catch (118): 500.  A buffer of no
\* bytes fails the test of 106: the inner try ends, the outer try ends, and
\* the handler returns with nothing sent.  For a non-empty buffer the
\* argument of json() is evaluated (109-113): formatLatexOutput(stdout)
\* throws where stdout is unbound, into the catch of 115 and so to the 500
\* of 120.
ReadPdf ==
    /\ variant.state = "reading"
    /\ \E read \in (IF variant.pdf = "absent" THEN { "ENOENT" }
                     ELSE { "EACCES", variant.pdf }) :
         variant' = [variant EXCEPT
                       !.state = "ended",
                       !.read = read,
                       !.res = IF read \in { "ENOENT", "EACCES" }
                               THEN << VariantFailure("Failed to generate PDF") >>
                               ELSE IF read = "empty" THEN << >>
                               ELSE IF StdoutInScope THEN << VariantSuccess >>
                               ELSE << VariantFailure("Failed to generate PDF") >>]
    /\ UNCHANGED << serverVars, retry, dl, client, extract, parse, tasks >>

\* No request yet; the directory may hold the PDF of an earlier run.
VariantInit ==
    /\ ServerInit
    /\ retry = NoRetry
    /\ dl = NoDownload
    /\ client = NoClient
    /\ extract = NoExtract
    /\ parse = NoParse
    /\ tasks = NoTasks
    /\ variant \in { [NoVariant EXCEPT !.pdf = pdf] : pdf \in { "absent", "empty", "full" } }

VariantNext ==
    \/ VariantRequest
    \/ PdflatexClose
    \/ PdflatexError
    \/ ReadPdf

VariantSpec == VariantInit /\ [][VariantNext]_vars

\* ------------------------- the per-section tasks (unnamed/part_002, 505-537)
\* sections.map(async (section) => ...) under Promise.all: one task per
\* section, each suspended at its await of getDocWithRetry.
MaxTasks == 2

\* The section rows of the store, in the order of the query.
SectionRow(id, name) == [id |-> id, name |-> name]

SectionRows == << SectionRow("s1", "Introduction"), SectionRow("s2", "Methods"),
                 SectionRow("s3", "Results") >>

SectionLists == { SubSeq(SectionRows, 1, n) : n \in 0..MaxTasks }

\* What is thrown: an Error with its message, or a value that is no Error.
Thrown(isError, message) == [isError |-> isError, message |-> message]

NoThrown == Thrown(FALSE, "")

\* The documents of the sections.
EmptyDocument == Element("#document", "", << >>)

ParagraphDocument ==
    Element("#document", "",
            << Element("blockgroup", "",
                       << Element("blockcontainer", "",
                                  << Element("paragraph", "", << TextNode(<< "x" >>) >>) >>) >>) >>)

HeadingDocument ==
    Element("#document", "",
            << Element("blockgroup", "",
                       << Element("blockcontainer", "",
                                  << Element("heading", "2", << TextNode(<< "Intro" >>) >>) >>),
                          Element("blockcontainer", "", << Element("table", "", << >>) >>) >>) >>)

\* How the part of the callback after its await ends: getDocWithRetry
\* resolves with nothing (null), it rejects, Y.applyUpdate or extractContent
\* throws, or the document is extracted.
TaskOutcome(kind, fragment, thrown) == [kind |-> kind, fragment |-> fragment, thrown |-> thrown]

Pending == TaskOutcome("pending", EmptyDocument, NoThrown)

TaskOutcomes ==
    { TaskOutcome("null", EmptyDocument, NoThrown) }
    \cup { TaskOutcome("fetchThrows", EmptyDocument, t) :
              t \in { Thrown(TRUE, "429 Too Many Requests"), Thrown(TRUE, "boom"),
                      Thrown(FALSE, "") } }
    \cup { TaskOutcome("extractThrows", EmptyDocument, Thrown(TRUE, "Unexpected end of array")) }
    \cup { TaskOutcome("data", f, NoThrown) :
              f \in { EmptyDocument, ParagraphDocument, HeadingDocument } }

\* The object a task returns: { ...section, content } with or without error.
\* error is << >> where the object has no error property.
SectionValue(section, content, error) ==
    [id |-> section.id, name |-> section.name, content |-> content, error |-> error]

NoValue == SectionValue(SectionRow("", ""), << >>, << >>)

\* Lines 507-535: the value of the callback for an outcome.
CallbackResult(section, outcome, enableLogging) ==
    IF outcome.kind = "null" THEN SectionValue(section, << >>, << >>)
    ELSE IF outcome.kind = "data"
    THEN SectionValue(section, extractContent(outcome.fragment, enableLogging), << >>)
    ELSE SectionValue(section, << >>,
                      << IF outcome.thrown.isError THEN outcome.thrown.message
                         ELSE "Unknown error" >>)

\* Mutant of PromiseAll: the values in the order the promises settled.
PromiseAllAsSettled(values, settled) ==
    [k \in 1..Len(settled) |-> values[settled[k]]]

\* Promise.all (line 505) resolves with the values in the order of the
\* promises it was given, whatever order they settled in.
PromiseAll(values, settled) == values

\* Lines 505-509: every callback runs to its await.
ProcessSections ==
    /\ tasks.state = "idle"
    /\ \E sections \in SectionLists, enableLogging \in BOOLEAN :
         tasks' = [tasks EXCEPT
                     !.state = "running",
                     !.enableLogging = enableLogging,
                     !.sections = sections,
                     !.outcome = [i \in DOMAIN sections |-> Pending],
                     !.value = [i \in DOMAIN sections |-> NoValue]]
    /\ UNCHANGED << serverVars, retry, dl, client, extract, parse, variant >>

\* The await of task i resumes and the callback runs to its return (lines
\* 509-535): its promise is fulfilled with the section's object.
TaskSettles(i) ==
    /\ tasks.state = "running"
    /\ i \in DOMAIN tasks.sections
    /\ tasks.outcome[i] = Pending
    /\ \E o \in TaskOutcomes :
         tasks' = [tasks EXCEPT
                     !.outcome[i] = o,
                     !.value[i] = CallbackResult(tasks.sections[i], o, tasks.enableLogging),
                     !.settled = Append(@, i)]
    /\ UNCHANGED << serverVars, retry, dl, client, extract, parse, variant >>

\* Every promise is fulfilled: the await of Promise.all resumes (line 505).
JoinSections ==
    /\ tasks.state = "running"
    /\ Len(tasks.settled) = Len(tasks.sections)
    /\ tasks' = [tasks EXCEPT
                   !.state = "joined",
                   !.sectionsWithContent = PromiseAll(tasks.value, tasks.settled)]
    /\ UNCHANGED << serverVars, retry, dl, client, extract, parse, variant >>

TasksInit ==
    /\ ServerInit
    /\ retry = NoRetry
    /\ dl = NoDownload
    /\ client = NoClient
    /\ extract = NoExtract
    /\ parse = NoParse
    /\ variant = NoVariant
    /\ tasks = NoTasks

TasksNext ==
    \/ ProcessSections
    \/ \E i \in 1..Len(SectionRows) : TaskSettles(i)
    \/ JoinSections

TasksSpec == TasksInit /\ [][TasksNext]_vars

\* ================================================================== claims
Range(seq) == { seq[i] : i \in DOMAIN seq }

HasEv(j, ev, what) == \E i \in DOMAIN hist[j] : hist[j][i].ev = ev /\ hist[j][i].what = what

HasEvCode(j, ev, what, code) == Ev(ev, what, code) \in Range(hist[j])

\* The job has been answered after artifact collection was reached.
Collected(j) == pc[j] = "done" /\ (HasEv(j, "collect", "pdf") \/ HasEv(j, "collect", "none"))

TheResponse(j) == res[j][1]

ThePdf(j) == fs[pdfPathOf(req[j].filename)]

\* C1: once all passes have run, the job answers 200 with the artifact if
\* and only if the expected PDF exists and is non-empty; otherwise it fails.
C1_SuccessIffArtifactNonEmpty ==
    \A j \in Jobs :
        Collected(j) =>
            /\ Len(res[j]) = 1
            /\ TheResponse(j).status \in { 200, 500 }
            /\ TheResponse(j).status = 200
                 <=> (ThePdf(j).kind = "pdf" /\ ThePdf(j).size > 0)

\* The step the pipeline prescribes after the close of a lualatex run.
FollowsPass(from, to) ==
    \/ from = "lualatex1" /\ to \in { "bibtex", "lualatex2" }
    \/ from = "lualatex2" /\ to = "lualatex3"
    \/ from = "lualatex3" /\ to \in { "cleanup", "collect" }

InFlight(j) == pc[j] \notin { "idle", "compile", "done" }

\* C3: two jobs in flight together never use the same working directory.
C3_WorkingDirsDisjoint ==
    \A i, j \in Jobs :
        (i # j /\ InFlight(i) /\ InFlight(j))
            => dirPathOf(req[i].filename) # dirPathOf(req[j].filename)

\* C4: the PDF a job returns was made by its own passes from its own source,
\* and between its write and its last pass its source file is its own.
C4_OwnArtifactOwnSource ==
    \A j \in Jobs :
        /\ (Len(res[j]) > 0 /\ TheResponse(j).status = 200)
              => (TheResponse(j).body.by = j /\ TheResponse(j).body.src = j)
        /\ (pc[j] \in Passes \cup { "writebib", "images", "bibtex" })
              => fs[absolutePathOf(req[j].filename)] = TexFile(j)

LabelOf(line) ==
    CASE line = "err" -> "Error: "
      [] line = "warn" -> "Warning: "
      [] line = "out" -> "Output: "
      [] OTHER -> ""

Transcript(text) ==
    LET shown == SelectSeq(text, LAMBDA l : l \notin { "blank", "noise" })
    IN  [i \in 1..Len(shown) |-> << LabelOf(shown[i]), shown[i] >>]

\* C6: with no artifact after the final pass the job answers 500, and the
\* response carries the transcript of the stdout of all three runs (the
\* placeholder line when they printed nothing).
C6_FailureCarriesTranscript ==
    \A j \in Jobs :
        (pc[j] = "done" /\ HasEv(j, "close", "lualatex3") /\ ThePdf(j).kind = "absent")
            => /\ Len(res[j]) = 1
               /\ TheResponse(j).status = 500
               /\ TheResponse(j).output =
                    IF stdout1[j] \o stdout2[j] \o stdout3[j] = << >>
                    THEN << << "", "none" >> >>
                    ELSE Transcript(stdout1[j] \o stdout2[j] \o stdout3[j])

\* C6's case: no PDF after three runs that each printed an error line.
C6_Witness ==
    \E j \in Jobs :
        /\ pc[j] = "done" /\ HasEv(j, "close", "lualatex3") /\ ThePdf(j).kind = "absent"
        /\ stdout1[j] # << >> /\ stdout2[j] # << >> /\ stdout3[j] # << >>
        /\ Len(TheResponse(j).output) = 3

\* The exit code a process of job j closed with is not 0.
ExitedNonZero(j, what) ==
    \E i \in DOMAIN hist[j] :
        hist[j][i].ev = "close" /\ hist[j][i].what = what /\ hist[j][i].code > 0

\* The diagnostics a response carries or reflects: the errors of a JSON
\* body, the errorInfo.errors counted in the headers of a PDF response.
ResponseDiagnostics(j) ==
    IF TheResponse(j).status = 200 THEN errorInfo[j].errors ELSE TheResponse(j).errors

\* C7: a job whose first two passes exit non-zero and whose PDF exists and
\* is non-empty reports success with warnings = true and a non-empty
\* diagnostics list.
C7_SoftFailureReportsWarnings ==
    \A j \in Jobs :
        (/\ Collected(j)
         /\ ExitedNonZero(j, "lualatex1") /\ ExitedNonZero(j, "lualatex2")
         /\ ThePdf(j).kind = "pdf" /\ ThePdf(j).size > 0)
            => /\ TheResponse(j).status = 200
               /\ TheResponse(j).warnings = TRUE
               /\ ResponseDiagnostics(j) # << >>

\* C8: the diagnostic pushed when a pass ends with a process-level error or
\* a timeout is among the diagnostics of the job's final response.
C8_ProcessDiagnosticsKept ==
    \A j \in Jobs :
        \A i \in DOMAIN hist[j] :
            (hist[j][i].ev = "error" /\ Len(res[j]) > 0)
                => ProcessDiagnostic(hist[j][i].what,
                                     IF hist[j][i].code = -1 THEN "ETIMEDOUT" ELSE "ENOENT")
                     \in Range(ResponseDiagnostics(j))

\* The steps of a job in the order the pipeline prescribes.
ExpectedSteps(r) ==
    << << "write", "source" >> >>
    \o (IF r.bibliography THEN << << "write", "bibliography" >> >> ELSE << >>)
    \o (IF r.imageReferences > 0 THEN << << "write", "images" >> >> ELSE << >>)
    \o << << "spawn", "lualatex1" >>, << "close", "lualatex1" >> >>
    \o (IF r.bibliography THEN << << "spawn", "bibtex" >>, << "close", "bibtex" >> >> ELSE << >>)
    \o << << "spawn", "lualatex2" >>, << "close", "lualatex2" >>,
          << "spawn", "lualatex3" >>, << "close", "lualatex3" >> >>
    \o (IF r.imageReferences > 0 THEN << << "cleanup", "images" >> >> ELSE << >>)
    \o << << "collect", "artifact" >> >>

\* The steps a job has taken: its history without the 'error' events.
StepsTaken(j) ==
    LET steps == SelectSeq(hist[j], LAMBDA e : e.ev # "error")
    IN  [i \in 1..Len(steps) |->
            << steps[i].ev, IF steps[i].ev = "collect" THEN "artifact" ELSE steps[i].what >>]

IsPrefix(s, t) == Len(s) <= Len(t) /\ s = SubSeq(t, 1, Len(s))

CountEv(j, ev) == Cardinality({ i \in DOMAIN hist[j] : hist[j][i].ev = ev })

\* C9: a job's steps follow the fixed order write sources, pass 1, bibtex
\* (if supplied), pass 2, pass 3, collection; a process is started only
\* after the previous one has closed, so at most one is running.
C9_FixedOrderOneProcess ==
    \A j \in Jobs :
        /\ IsPrefix(StepsTaken(j), ExpectedSteps(req[j]))
        /\ CountEv(j, "spawn") - CountEv(j, "close") \in { 0, 1 }
        /\ (proc[j] # "none") <=> (CountEv(j, "spawn") - CountEv(j, "close") = 1)

\* C9's case: a job with a bibliography and images that went through every
\* step.
C9_Witness ==
    \E j \in Jobs :
        /\ req[j].bibliography /\ req[j].imageReferences > 0
        /\ pc[j] = "done"
        /\ StepsTaken(j) = ExpectedSteps(req[j])

\* C10: bibtex runs exactly once, between the close of pass 1 and the start
\* of pass 2, when a bibliography is supplied and never otherwise; neither
\* its exit code nor its failure to start keeps pass 2 from starting.
C10_BibtexOnceBestEffort ==
    \A j \in Jobs :
        /\ ~req[j].bibliography => ~HasEv(j, "spawn", "bibtex")
        /\ (req[j].bibliography /\ HasEv(j, "spawn", "lualatex2"))
              => /\ Cardinality({ i \in DOMAIN hist[j] :
                                    hist[j][i].ev = "spawn" /\ hist[j][i].what = "bibtex" }) = 1
                 /\ \E a, b, c \in DOMAIN hist[j] :
                        /\ a < b /\ b < c
                        /\ hist[j][a].ev = "close" /\ hist[j][a].what = "lualatex1"
                        /\ hist[j][b].ev = "spawn" /\ hist[j][b].what = "bibtex"
                        /\ hist[j][c].ev = "spawn" /\ hist[j][c].what = "lualatex2"
        /\ pc[j] = "bibtex" => ENABLED BibtexClose(j)

\* The files job j has written.
WrittenBy(j) == { p \in AllPaths : fs[p].kind # "absent" /\ fs[p].by = j }

\* C11: every file the handler writes, and every directory a compiler runs
\* in, lies inside /opt/latexfiles, whatever filename the request carries.
C11_WritesInsideRoot ==
    /\ \A p \in AllPaths : fs[p].kind # "absent" => IsPrefix(LatexRoot, p)
    /\ \A j \in Jobs :
         pc[j] \in Passes \cup { "bibtex" } => IsPrefix(LatexRoot, dirPathOf(req[j].filename))

C13_MalformedIs400 ==
    \A j \in Jobs :
        (/\ pc[j] = "done"
         /\ req[j].apiKey = LATEX_SERVICE_API_KEY
         /\ (req[j].ftype # "string" \/ req[j].ctype # "string"))
            => /\ Len(res[j]) = 1
               /\ TheResponse(j).status = 400
               /\ hist[j] = << >>
               /\ WrittenBy(j) = { }

\* C14: the 200 response carries the diagnostics record computed for the
\* job: the formatted transcript of all passes, the full list of
\* diagnostics, and the warnings flag.
C14_SuccessCarriesDiagnostics ==
    \A j \in Jobs :
        (pc[j] = "done" /\ Len(res[j]) = 1 /\ TheResponse(j).status = 200)
            => /\ TheResponse(j).output = errorInfo[j].output
               /\ TheResponse(j).errors = errorInfo[j].errors
               /\ TheResponse(j).warnings = errorInfo[j].warnings

Last(seq) == seq[Len(seq)]

\* C15: getDocWithRetry makes a further attempt only after an attempt that
\* failed with a 429 error; after any other error it throws that error with
\* no further attempt and no delay, and after a success it returns the
\* result.
C15_RetryOnlyOnRateLimit ==
    /\ \A i \in 1..(Len(retry.fetched) - 1) : retry.fetched[i] = "429"
    /\ retry.state = "waiting" => Last(retry.fetched) = "429"
    /\ Len(retry.fetched) > 0 =>
          /\ Last(retry.fetched) \in { "other", "nomessage" }
                => /\ retry.state = "thrown"
                   /\ retry.result = Last(retry.fetched)
                   /\ Len(retry.delays) = Len(retry.fetched) - 1
          /\ Last(retry.fetched) \in { "update", "null" }
                => /\ retry.state = "returned"
                   /\ retry.result = Last(retry.fetched)
                   /\ Len(retry.delays) = Len(retry.fetched) - 1

\* C15's case: a first attempt that was rate-limited and a second one that
\* failed with another error, thrown with attempts still left.
C15_Witness ==
    /\ retry.fetched = << "429", "other" >>
    /\ retry.state = "thrown"
    /\ retry.maxRetries > 2

\* C16: at most maxRetries attempts are made; the k-th wait is
\* 1000 * 2^(k-1) ms; no wait follows the last attempt; a 429 on the last
\* attempt is thrown.
C16_BoundedExponentialBackoff ==
    /\ Len(retry.fetched) <= retry.maxRetries
    /\ retry.attempt <= retry.maxRetries
    /\ \A k \in 1..Len(retry.delays) : retry.delays[k] = 1000 * (2 ^ (k - 1))
    /\ Len(retry.delays) <= Len(retry.fetched)
    /\ retry.maxRetries > 0 => Len(retry.delays) < retry.maxRetries
    /\ (Len(retry.fetched) = retry.maxRetries /\ retry.maxRetries > 0
           /\ Last(retry.fetched) = "429")
          => retry.state = "thrown" /\ retry.result = "429"
    /\ (retry.state = "thrown" /\ retry.result = "429")
          => Len(retry.fetched) = retry.maxRetries

\* C16's case: the default three attempts, all rate-limited: waits of 1 s
\* and 2 s, then the third error thrown.
C16_Witness ==
    /\ retry.maxRetries = DefaultMaxRetries
    /\ retry.fetched = << "429", "429", "429" >>
    /\ retry.delays = << 1000, 2000 >>
    /\ retry.state = "thrown"

Posted == client.state = "posted"

\* C18 as stated: the mapping sent with the compilation request holds only
\* references whose bytes resolved; a reference whose fetch failed is not in
\* it.
C18_FailedReferencesOmitted ==
    Posted => \A k \in DOMAIN RequestImages(client) : client.img[k] = "resolved"

\* C18, amended: the mapping sent with the compilation request holds every
\* collected reference, and a reference carries a payload (base64Data) if and
\* only if its bytes resolved: a failed one is sent without payload, for the
\* compile service to fetch by its url.
C18_PayloadIffResolved ==
    Posted =>
        \A k \in DOMAIN client.img :
            /\ k \in DOMAIN RequestImages(client)
            /\ RequestImages(client)[k].base64Data # "none" <=> client.img[k] = "resolved"

\* C18's case: a request sent with one reference that failed and one that
\* resolved.
C18_Witness ==
    /\ Posted
    /\ \E k, l \in DOMAIN client.img :
         client.img[k] = "failed" /\ client.img[l] = "resolved"

\* C19: downloadAndEncodeImages removes no reference and leaves its input as
\* collected; the returned mapping has the input's keys, each entry is
\* assigned at most once, and only when its bytes resolved (payload and
\* content type added, the original fields kept); a failed one stays as it
\* was.
C19_ReferencesNeverRemoved ==
    client.state \in { "downloading", "posted" } =>
        /\ client.imageReferences = collectImageReferences(client.sections)
        /\ DOMAIN client.updatedImageRefs = DOMAIN client.imageReferences
        /\ \A k \in DOMAIN client.imageReferences :
             LET old == client.imageReferences[k]
                 new == client.updatedImageRefs[k]
             IN  /\ old.base64Data = "none"
                 /\ client.updates[k] <= 1
                 /\ client.img[k] # "resolved" => (new = old /\ client.updates[k] = 0)
                 /\ client.img[k] = "resolved" =>
                      /\ client.updates[k] = 1
                      /\ new.base64Data # "none" /\ new.contentType # "none"
                      /\ new.id = old.id /\ new.url = old.url
                      /\ new.filename = old.filename /\ new.section = old.section

\* C19's case: the fetcher has joined with two references, one failed and
\* one resolved after a compression.
C19_Witness ==
    /\ Posted
    /\ \E k, l \in DOMAIN client.img :
         /\ client.img[k] = "failed"
         /\ client.img[l] = "resolved" /\ client.updatedImageRefs[l].compressedSize > 0

\* The sections hold no image block.
NoImageBlocks(sections) ==
    \A i \in DOMAIN sections :
        \A b \in DOMAIN sections[i].content : ~IsImageBlock(sections[i].content[b])

\* C20: for a paper without image blocks the collected mapping is empty, no
\* image is fetched by the route, and the compile service neither calls
\* downloadImages nor creates an images directory.
C20_NoImagesNoFetch ==
    (client.state # "idle" /\ NoImageBlocks(client.sections)) =>
        /\ client.state # "called" => client.imageReferences = NoRefs
        /\ client.fetches = << >>
        /\ Posted => RequestImages(client) = NoRefs
        /\ pc[1] # "images"
        /\ ~HasEv(1, "write", "images")
        /\ fs[imagesDirOf(ClientFilename)].kind = "absent"

\* C20's case: a simple paper of text only has been compiled.
C20_Witness ==
    /\ Len(client.sections) = 1
    /\ Len(client.sections[1].content) > 1
    /\ NoImageBlocks(client.sections)
    /\ Posted
    /\ pc[1] = "done" /\ HasEv(1, "collect", "pdf")

\* The image blocks of a paper whose URL is present with an id but is not a
\* valid http or https URL, as << section index, block index >>.
InvalidUrlBlocks(sections) ==
    { sb \in UNION { { << s, i >> : i \in DOMAIN sections[s].content } : s \in DOMAIN sections } :
        LET b == sections[sb[1]].content[sb[2]] IN
          /\ sections[sb[1]].isArray /\ IsImageBlock(b)
          /\ b.imageId # << >> /\ b.imageUrl.present /\ ~IsValidUrl(b.imageUrl) }

\* The diagnostics the collector wrote for one block.
DiagnosticsOf(c, sb) ==
    { d \in DOMAIN c.diagnostics :
        /\ c.diagnostics[d].section = c.sections[sb[1]].name
        /\ c.diagnostics[d].block = sb[2] }

\* C21: an image block whose URL is not a valid http or https URL (another
\* scheme, or a string that does not parse as a URL) is dropped from the
\* collector's mapping, produces exactly one collector diagnostic, and no
\* fetch is ever attempted for it.
C21_InvalidUrlOneDiagnostic ==
    client.state \in { "downloading", "posted" } =>
      \A sb \in InvalidUrlBlocks(client.sections) :
        LET b == client.sections[sb[1]].content[sb[2]] IN
          /\ \A k \in DOMAIN client.imageReferences : client.imageReferences[k].url # b.imageUrl
          /\ \A k \in DOMAIN client.fetches : client.imageReferences[k].url # b.imageUrl
          /\ Cardinality(DiagnosticsOf(client, sb)) = 1

\* The parts of C21 that hold: the block is dropped and never fetched, and
\* the collector writes one diagnostic for another scheme.
C21_DroppedAndNeverFetched ==
    client.state \in { "downloading", "posted" } =>
      \A sb \in InvalidUrlBlocks(client.sections) :
        LET b == client.sections[sb[1]].content[sb[2]] IN
          /\ \A k \in DOMAIN client.imageReferences : client.imageReferences[k].url # b.imageUrl
          /\ \A k \in DOMAIN client.fetches : client.imageReferences[k].url # b.imageUrl
          /\ Cardinality(DiagnosticsOf(client, sb)) = IF b.imageUrl.parses THEN 1 ELSE 3

\* The element a container's block is made from: its first paragraph, else
\* its first heading.
InnerOf(container) ==
    IF getElementsByTagName(container, "paragraph") # << >>
    THEN getElementsByTagName(container, "paragraph")[1]
    ELSE getElementsByTagName(container, "heading")[1]

\* The paths (child indices) from a node to the text nodes below it, in
\* document order, from child k on.
RECURSIVE TextPathsIn(_, _, _)
TextPathsIn(node, path, k) ==
    IF k > Len(node.childNodes) THEN << >>
    ELSE LET ch == node.childNodes[k] IN
         (IF ch.nodeType = 3 THEN << Append(path, k) >>
          ELSE IF ch.nodeType = 1 THEN TextPathsIn(ch, Append(path, k), 1)
          ELSE << >>)
         \o TextPathsIn(node, path, k + 1)

RECURSIVE NodeAt(_, _)
NodeAt(node, path) ==
    IF path = << >> THEN node ELSE NodeAt(node.childNodes[Head(path)], Tail(path))

\* The style elements on the path from a node down, outermost first.
RECURSIVE StyleChain(_, _)
StyleChain(node, path) ==
    (IF TagToLowerCase(node.tagName) \in StyleTags
     THEN << TagToLowerCase(node.tagName) >> ELSE << >>)
    \o (IF path = << >> THEN << >>
        ELSE StyleChain(node.childNodes[Head(path)], Tail(path)))

\* One run for each text node below el, with the chain of its style
\* ancestors.
AncestorRuns(el) ==
    [i \in DOMAIN TextPathsIn(el, << >>, 1) |->
        Run(NodeAt(el, TextPathsIn(el, << >>, 1)[i]).text,
            StyleChain(el, TextPathsIn(el, << >>, 1)[i]), TRUE)]

\* The elements of a paragraph's or heading's children handed to
\* processStyledNode.
RECURSIVE StyledSubtrees(_)
StyledSubtrees(childNodes) ==
    IF childNodes = << >> THEN << >>
    ELSE (IF /\ Head(childNodes).nodeType = 1
             /\ TagToLowerCase(Head(childNodes).tagName) \notin { "tablemention", "sourcemention" }
          THEN << Head(childNodes) >> ELSE << >>)
         \o StyledSubtrees(Tail(childNodes))

RECURSIVE AncestorRunsOfAll(_)
AncestorRunsOfAll(els) ==
    IF els = << >> THEN << >> ELSE AncestorRuns(Head(els)) \o AncestorRunsOfAll(Tail(els))

\* The runs of a content that came from processStyledNode.
RECURSIVE StyledRuns(_)
StyledRuns(content) ==
    IF content = << >> THEN << >>
    ELSE (IF Head(content).hasStyles THEN << Head(content) >> ELSE << >>)
         \o StyledRuns(Tail(content))

\* C22: for an inline subtree of nested style elements, each extracted run
\* carries the text of one text node and a style list equal to the chain of
\* its bold/italic/underline ancestors, outermost first; styles pushed for
\* one subtree never leak into sibling subtrees.
C22_RunsCarryAncestorStyles ==
    \A c \in Range(extract.calls) :
      \A i \in DOMAIN c.mapped :
        c.mapped[i].type \in { "paragraph", "heading" } =>
          StyledRuns(c.mapped[i].content)
            = AncestorRunsOfAll(StyledSubtrees(InnerOf(blockContainers(extract.fragment)[i]).childNodes))

\* bold containing italic containing "x" and then "y", followed by "z": x
\* is [bold, italic], y is [bold] alone and z has no style.
C22_Witness ==
    \E c \in Range(extract.calls) :
      \E b \in Range(c.blocks) :
        /\ Run(<< "x" >>, << "bold", "italic" >>, TRUE) \in Range(b.content)
        /\ Run(<< "y" >>, << "bold" >>, TRUE) \in Range(b.content)
        /\ Run(<< "z" >>, << >>, FALSE) \in Range(b.content)

HasRecognizedChild(container) ==
    \E k \in DOMAIN container.childNodes :
        container.childNodes[k].tagName \in { "paragraph", "heading", "imageblock" }

\* C24: a block container with no recognized inner element (paragraph,
\* heading, image block) produces no block descriptor and a diagnostic, and
\* never aborts extraction: the blocks of all other containers are still
\* returned, in document order; a fragment without a root grouping element
\* yields empty content rather than an error.
C24_UnrecognizedSkippedWithDiagnostic ==
    \A c \in Range(extract.calls) :
      /\ \A i \in DOMAIN c.mapped :
           ~HasRecognizedChild(blockContainers(extract.fragment)[i]) =>
             /\ c.mapped[i] = NullBlock
             /\ \E d \in Range(c.diagnostics) : d.container = i
      /\ c.blocks = FilterBoolean(c.mapped)
      /\ getElementsByTagName(extract.fragment, "blockgroup") = << >> => c.blocks = << >>

\* The part of C24 that holds: extraction never aborts, every container
\* that gives a block gives it in document order, and a fragment without a
\* block group gives the empty content.
C24_NeverAborts ==
    \A c \in Range(extract.calls) :
      /\ c.blocks = FilterBoolean(c.mapped)
      /\ getElementsByTagName(extract.fragment, "blockgroup") = << >> => c.blocks = << >>

\* The markers of the source and table references below the nodes, at any
\* depth, in document order.
RECURSIVE MarkersBelow(_)
MarkersBelow(nodes) ==
    IF nodes = << >> THEN << >>
    ELSE LET n == Head(nodes) IN
         (IF n.nodeType = 1 /\ TagToLowerCase(n.tagName) = "sourcemention"
          THEN << << "\\cite{", n.attr, "}" >> >>
          ELSE IF n.nodeType = 1 /\ TagToLowerCase(n.tagName) = "tablemention"
          THEN << << "\\ref{", n.attr, "}" >> >>
          ELSE MarkersBelow(n.childNodes))
         \o MarkersBelow(Tail(nodes))

\* The citation and cross-reference markers of a content, in order.
RECURSIVE MarkersOf(_)
MarkersOf(content) ==
    IF content = << >> THEN << >>
    ELSE (IF Len(Head(content).text) = 3 /\ Head(content).text[1] \in { "\\cite{", "\\ref{" }
          THEN << Head(content).text >> ELSE << >>)
         \o MarkersOf(Tail(content))

\* C25: every source-reference element in a block's inline content, at any
\* nesting depth, yields exactly one citation marker \cite{name} with its
\* sourceName, and every table-reference element exactly one \ref{name}
\* with its tableName, each at the element's position in document order.
C25_OneMarkerPerReference ==
    \A c \in Range(extract.calls) :
      \A i \in DOMAIN c.mapped :
        c.mapped[i].type \in { "paragraph", "heading" } =>
          MarkersOf(c.mapped[i].content)
            = MarkersBelow(InnerOf(blockContainers(extract.fragment)[i]).childNodes)

\* The records of a text's matches in the order of their positions in the
\* text.
RECURSIVE DiscoveryOrder(_)
DiscoveryOrder(logContent) ==
    IF logContent = << >> THEN << >>
    ELSE SelectKind(<< Head(logContent) >>, { "err", "errAt" }, "Error")
         \o SelectKind(<< Head(logContent) >>, { "warn", "warnAt" }, "Warning")
         \o DiscoveryOrder(Tail(logContent))

\* C26: the diagnostic records returned by parseLatexErrors are in
\* discovery order, ordered by the position of their matches in the input
\* text and not grouped by severity: a warning that occurs in the log before
\* an error precedes that error in the result.
C26_DiscoveryOrder ==
    parse.state = "returned" => parse.result = DiscoveryOrder(parse.logContent)

\* A line that neither pattern of parseLatexErrors matches.
Unmarked(line) == line \notin { "err", "errAt", "warn", "warnAt" }

\* C28: parseLatexErrors is tolerant: for any input text, including the
\* empty one and a text with no error or warning marker, it returns a
\* sequence (empty when nothing matches) and never raises; every record it
\* returns has kind Error or Warning and a line that is either an integer
\* or absent.
C28_ParserTolerant ==
    /\ parse.state \in { "idle", "called", "returned" }
    /\ parse.state = "returned" =>
         /\ DOMAIN parse.result = 1..Len(parse.result)
         /\ (\A i \in DOMAIN parse.logContent : Unmarked(parse.logContent[i]))
               => parse.result = << >>
         /\ \A i \in DOMAIN parse.result :
              /\ parse.result[i].type \in { "Error", "Warning" }
              /\ \/ parse.result[i].line = << >>
                 \/ Len(parse.result[i].line) = 1 /\ parse.result[i].line[1] \in Nat

\* A text without any marker has been parsed.
C28_Witness ==
    /\ parse.state = "returned"
    /\ parse.logContent = << "txt", "out" >>
    /\ parse.result = << >>

\* C27: the directory of downloaded image assets is removed only at a
\* moment when the PDF is confirmed present, and never before the last pass
\* has closed; when no PDF exists the image assets are left in place, and a
\* failure of the removal never turns the job into a failure.  As a
\* property of steps: a step that removes an images directory is the
\* cleanup of a job whose third run has closed and whose PDF exists; a
\* cleanup without a PDF changes no file; and every cleanup, whether its
\* removal worked or not, goes on to the collection of the artifact without
\* sending a response.
C27_CleanupOnlyWithArtifact ==
    [][ /\ \A p \in AllPaths :
             (fs[p].kind = "dir" /\ fs'[p].kind = "absent") =>
               \E j \in Jobs :
                 /\ pc[j] = "cleanup" /\ pc'[j] = "collect"
                 /\ imagesDirOf(req[j].filename) = p
                 /\ fs[pdfPathOf(req[j].filename)].kind = "pdf"
                 /\ HasEv(j, "close", "lualatex3")
        /\ \A j \in Jobs :
             (pc[j] = "cleanup" /\ pc'[j] # "cleanup") =>
               /\ pc'[j] = "collect" /\ res'[j] = res[j]
               /\ fs[pdfPathOf(req[j].filename)].kind = "absent" => fs' = fs
      ]_vars

\* A job with images has cleaned up and sent its PDF: once with the images
\* directory removed.
C27_Witness ==
    \E j \in Jobs :
        /\ Collected(j) /\ TheResponse(j).status = 200
        /\ HasEv(j, "write", "images") /\ HasEv(j, "cleanup", "images")
        /\ fs[imagesDirOf(req[j].filename)].kind = "absent"

\* The response of a request for an image: status 200 and a content type
\* starting with image/.
ImageResponse(response) ==
    /\ response.received /\ ~response.error /\ response.status = 200
    /\ response.contentType # << >> /\ response.contentType[1] = "image/"

\* C30: in downloadImages an image counts as successful, and an asset file
\* is written for it, only if either its pre-attached payload decodes to a
\* non-empty buffer, or its request returns HTTP 200 with a content type
\* starting with image/; an empty decoded buffer, a status other than 200
\* or a content type that is no image counts as a failure for that image and
\* writes no asset file for it.
C30_SuccessOnlyForImageData ==
    \A i \in DOMAIN dl.img :
      /\ (dl.img[i] = "ok" \/ dl.assets[i]) =>
            \/ dl.imageReferences[i] = "base64"
            \/ dl.imageReferences[i] = "url" /\ ImageResponse(dl.response[i])
      /\ dl.img[i] = "ok" => dl.assets[i]
      /\ ( \/ dl.imageReferences[i] = "emptyBase64" /\ dl.img[i] # "pending"
           \/ /\ dl.response[i].received /\ ~dl.response[i].error
              /\ ~ImageResponse(dl.response[i]) ) =>
            /\ dl.img[i] \in { "logging", "failed" }
            /\ ~dl.assets[i]
            /\ dl.state = "returned" => dl.img[i] = "failed" /\ dl.failed >= 1

\* A call with two fetched images has returned: one answered 200 with HTML,
\* has its error log and no asset and counts as failed; the other answered
\* 200 with an image and was written.
C30_Witness ==
    /\ dl.state = "returned"
    /\ \E i, k \in DOMAIN dl.img :
         /\ dl.response[i] = Response(FALSE, 200, << "text/", "html" >>)
         /\ dl.img[i] = "failed" /\ dl.errorLogs[i] /\ ~dl.assets[i]
         /\ dl.response[k] = Response(FALSE, 200, << "image/", "png" >>)
         /\ dl.img[k] = "ok" /\ dl.assets[k]
    /\ dl.successful = 1 /\ dl.failed = 1

\* The image blocks of a paper's sections whose content is an array.
ImageBlocksOf(sections) ==
    UNION { { sections[s].content[i] : i \in DOMAIN sections[s].content } \ { b \in Blocks : ~IsImageBlock(b) }
            : s \in { t \in DOMAIN sections : sections[t].isArray } }

\* The entry under key k comes from an image block with an id and an http or
\* https URL, and k is the id with '_' for every other character.
FromValidBlock(c, k) ==
    LET e == c.imageReferences[k] IN
    /\ \E b \in ImageBlocksOf(c.sections) : b.imageId = e.id /\ b.imageUrl = e.url
    /\ e.id # << >>
    /\ e.url.present /\ e.url.parses /\ e.url.protocol \in { "http:", "https:" }
    /\ Len(k) = Len(e.id)
    /\ \A i \in DOMAIN k : k[i] = IF e.id[i] \in AlphaNum THEN e.id[i] ELSE "_"
    /\ e.filename[1] = k

ImageExtensions == { "jpg", "jpeg", "png", "pdf" }

\* C29 as stated: every entry of the mapping returned by
\* collectImageReferences comes from an image block with a non-empty id and
\* a non-empty http or https URL; its key is the id with every
\* non-alphanumeric character replaced by '_', and its filename is key, '.'
\* and an extension that is one of jpg, jpeg, png, pdf taken from the URL
\* path, and jpg otherwise.  Image blocks missing id or URL never appear.
C29_EntriesWellFormed ==
    client.state \in { "downloading", "posted" } =>
      \A k \in DOMAIN client.imageReferences :
        LET e == client.imageReferences[k] IN
        /\ FromValidBlock(client, k)
        /\ e.filename[2] \in ImageExtensions
        /\ e.filename[2] = IF e.url.extension \in ImageExtensions
                           THEN e.url.extension ELSE "jpg"

\* C29, amended: as above, but the extension is the URL path's extension
\* as it is written, in whatever case, when its lower-case form is one of
\* jpg, jpeg, png, pdf, and jpg otherwise.
C29_EntriesKeepUrlExtension ==
    client.state \in { "downloading", "posted" } =>
      \A k \in DOMAIN client.imageReferences :
        LET e == client.imageReferences[k] IN
        /\ FromValidBlock(client, k)
        /\ \/ ToLowerCase(e.url.extension) \in ImageExtensions
              /\ e.filename[2] = e.url.extension
           \/ ToLowerCase(e.url.extension) \notin ImageExtensions
              /\ e.filename[2] = "jpg"

\* A paper with an image whose URL path ends in .PNG and whose id has a
\* '-', and with an image block without URL, has been collected.
C29_Witness ==
    /\ client.state = "downloading"
    /\ << "b", "_" >> \in DOMAIN client.imageReferences
    /\ client.imageReferences[<< "b", "_" >>].filename = << << "b", "_" >>, "PNG" >>
    /\ \E b \in ImageBlocksOf(client.sections) : ~b.imageUrl.present
    /\ Cardinality(DOMAIN client.imageReferences) = 1

\* The positions << section, block >> of a paper's valid image blocks: in a
\* content array, with an id and an http or https URL.
ValidImagePositions(sections) ==
    { sb \in UNION { { << s, i >> : i \in DOMAIN sections[s].content } : s \in DOMAIN sections } :
        LET b == sections[sb[1]].content[sb[2]] IN
          /\ sections[sb[1]].isArray /\ IsImageBlock(b)
          /\ b.imageId # << >> /\ b.imageUrl.present
          /\ b.imageUrl.parses /\ b.imageUrl.protocol \in { "http:", "https:" } }

\* Position a comes before position b in section-then-block order.
Before(a, b) == a[1] < b[1] \/ (a[1] = b[1] /\ a[2] < b[2])

\* The id with '_' for every character that is no letter or digit.
Sanitized(id) == [i \in DOMAIN id |-> IF id[i] \in AlphaNum THEN id[i] ELSE "_"]

\* C39: when several valid image blocks have ids that sanitize to the same
\* safe id, the collector's mapping holds exactly one entry for that safe
\* id, that of the block latest in section-then-block order; the size of
\* the mapping never exceeds the number of valid image blocks.
C39_LatestBlockWins ==
    client.state \in { "downloading", "posted" } =>
      LET valid == ValidImagePositions(client.sections) IN
      /\ DOMAIN client.imageReferences
            = { Sanitized(client.sections[sb[1]].content[sb[2]].imageId) : sb \in valid }
      /\ Cardinality(DOMAIN client.imageReferences) <= Cardinality(valid)
      /\ \A sb \in valid :
           LET b == client.sections[sb[1]].content[sb[2]]
               e == client.imageReferences[Sanitized(b.imageId)]
           IN  (\A other \in valid :
                   Sanitized(client.sections[other[1]].content[other[2]].imageId)
                       = Sanitized(b.imageId)
                     => other = sb \/ Before(other, sb))
               => /\ e.id = b.imageId /\ e.url = b.imageUrl
                  /\ e.section = client.sections[sb[1]].name

\* Two valid image blocks with the ids "b-" and "b_" have been collected:
\* one entry, that of the later block.
C39_Witness ==
    /\ client.state = "downloading"
    /\ \E a, b \in ValidImagePositions(client.sections) :
         /\ Before(a, b)
         /\ client.sections[a[1]].content[a[2]].imageId = << "b", "-" >>
         /\ client.sections[b[1]].content[b[2]].imageId = << "b", "_" >>
         /\ client.imageReferences[<< "b", "_" >>].id = << "b", "_" >>
    /\ Cardinality(DOMAIN client.imageReferences) = 1

\* The container's own inner element: its first child that is a paragraph,
\* a heading or an image block; the container itself when it has none.
OwnInner(container) ==
    IF HasRecognizedChild(container)
    THEN container.childNodes[CHOOSE k \in DOMAIN container.childNodes :
            /\ container.childNodes[k].tagName \in { "paragraph", "heading", "imageblock" }
            /\ \A m \in 1..(k - 1) :
                 container.childNodes[m].tagName \notin { "paragraph", "heading", "imageblock" }]
    ELSE container

\* The kind of descriptor a container's own inner element stands for.
OwnKind(container) ==
    CASE OwnInner(container).tagName = "paragraph" -> "paragraph"
      [] OwnInner(container).tagName = "heading" -> "heading"
      [] OwnInner(container).tagName = "imageblock" -> "imageBlock"
      [] OTHER -> "null"

\* The number of image block descriptors among the blocks.
ImageDescriptors(blocks) == Cardinality({ i \in DOMAIN blocks : blocks[i].type = "imageBlock" })

\* C34: each block container yields at most one block descriptor,
\* classified by the container's own inner element (paragraph, heading,
\* image block); the classification does not depend on elements of
\* containers nested inside it, and each image-block element of the
\* fragment yields exactly one ImageBlock descriptor.
C34_ClassifiedByOwnElement ==
    \A c \in Range(extract.calls) :
      /\ Len(c.mapped) = Len(blockContainers(extract.fragment))
      /\ \A i \in DOMAIN c.mapped :
           c.mapped[i].type = OwnKind(blockContainers(extract.fragment)[i])
      /\ ImageDescriptors(c.blocks)
           = Len(getElementsByTagName(extract.fragment, "imageblock"))

\* The part of C34 that holds: one result per container, hence at most one
\* descriptor each.
C34_OnePerContainer ==
    \A c \in Range(extract.calls) :
      /\ Len(c.mapped) = Len(blockContainers(extract.fragment))
      /\ Len(c.blocks) <= Len(c.mapped)

\* The heading element of a container whose own inner element is one.
IsOwnHeading(container) == OwnInner(container).tagName = "heading"

\* C35: a heading block's level equals the integer value of the heading
\* element's level attribute and is 1 when the attribute is absent, so it
\* is always a positive integer; a heading with level="2" and text "Intro"
\* yields a Heading with level 2 whose content is the single run with text
\* "Intro" and no style.
C35_HeadingLevelPositive ==
    \A c \in Range(extract.calls) :
      \A i \in DOMAIN c.mapped :
        c.mapped[i].type = "heading" =>
          /\ c.mapped[i].level \in { "1", "2", "3" }
          /\ OwnInner(blockContainers(extract.fragment)[i]).attr = "" => c.mapped[i].level = "1"
          /\ OwnInner(blockContainers(extract.fragment)[i]).attr = "2" =>
               /\ c.mapped[i].level = "2"
               /\ Len(c.mapped[i].content) = 1
               /\ c.mapped[i].content[1].text = << "Intro" >>
               /\ c.mapped[i].content[1].styles = << >>

\* The part of C35 that holds: the default, and the level of a numeral.
C35_HeadingLevelOfNumeral ==
    \A c \in Range(extract.calls) :
      \A i \in DOMAIN c.mapped :
        (c.mapped[i].type = "heading" /\ IsOwnHeading(blockContainers(extract.fragment)[i])) =>
          LET attr == OwnInner(blockContainers(extract.fragment)[i]).attr IN
          /\ attr = "" => c.mapped[i].level = "1"
          /\ attr = "2" =>
               /\ c.mapped[i].level = "2"
               /\ c.mapped[i].content = << Run(<< "Intro" >>, << >>, FALSE) >>
          /\ attr = "abc" => c.mapped[i].level = "NaN"
          /\ attr = "0" => c.mapped[i].level = "0"

\* C38: when called with maxRetries >= 1, getDocWithRetry ends every call
\* either by returning the value of a successful store fetch or by throwing
\* the error of its last attempt; the trailing return null is never
\* reached, so a null result always means the store itself returned null.
C38_NeverFallsThrough ==
    retry.maxRetries >= 1 =>
      /\ retry.via # "return null"
      /\ retry.state = "returned" =>
           /\ retry.via = "return await"
           /\ retry.result = Last(retry.fetched) /\ ~IsError(retry.result)
      /\ retry.state = "thrown" =>
           /\ retry.via = "throw error"
           /\ retry.result = Last(retry.fetched) /\ IsError(retry.result)
           /\ Len(retry.fetched) = retry.attempt

\* A call that was rate limited at every attempt, the last included, has
\* thrown; no other way is left to reach the end of the loop.
C38_Witness ==
    /\ retry.maxRetries >= 2
    /\ retry.state = "thrown"
    /\ Len(retry.fetched) = retry.maxRetries
    /\ \A i \in DOMAIN retry.fetched : retry.fetched[i] = "429"

\* The download of the reference succeeded: the fetch gave a blob.
Downloaded(c, k) == c.size[k] > 0

\* C31 as stated: in downloadAndEncodeImages every reference whose download
\* succeeded ends with an encoded payload: bytes larger than 2 MB are
\* recompressed before encoding and carry original and compressed sizes, a
\* recompression error falls back to encoding the original bytes (the
\* reference is not dropped or left without payload), and bytes of 2 MB or
\* less are encoded unchanged without any recompression attempt.
C31_DownloadedEndsEncoded ==
    Posted =>
      \A k \in DOMAIN client.img :
        Downloaded(client, k) =>
          LET new == client.updatedImageRefs[k] IN
          /\ new.base64Data # "none"
          /\ client.size[k] <= MAX_IMAGE_SIZE_MB =>
                client.compressions[k] = 0 /\ new.compressedSize = 0
          /\ client.size[k] > MAX_IMAGE_SIZE_MB => client.compressions[k] = 1
          /\ new.compressedSize > 0 => new.originalSize = client.size[k]

\* C31, amended: a downloaded reference ends with an encoded payload unless
\* the encoding of its original bytes fails, which leaves it in the mapping
\* without payload; bytes larger than 2 MB are handed to the recompression
\* once, and carry original and compressed sizes when the recompressed bytes
\* were encoded; bytes of 2 MB or less are never recompressed.
C31_EncodedUnlessEncodingFails ==
    /\ \A k \in DOMAIN client.img :
         /\ client.img[k] \in { "compressing", "encodingCompressed", "fallback" }
               => client.size[k] > MAX_IMAGE_SIZE_MB /\ client.compressions[k] = 1
         /\ client.img[k] = "encoding"
               => client.size[k] <= MAX_IMAGE_SIZE_MB /\ client.compressions[k] = 0
         /\ (client.img[k] \in { "compressing", "encodingCompressed", "fallback" }
               => ENABLED FetchImage(k))
    /\ Posted =>
         \A k \in DOMAIN client.img :
           Downloaded(client, k) =>
             LET new == client.updatedImageRefs[k] IN
             /\ k \in DOMAIN client.updatedImageRefs
             /\ new.base64Data # "none" <=> client.img[k] = "resolved"
             /\ client.size[k] <= MAX_IMAGE_SIZE_MB =>
                   client.compressions[k] = 0 /\ new.compressedSize = 0
             /\ client.size[k] > MAX_IMAGE_SIZE_MB => client.compressions[k] = 1
             /\ new.compressedSize > 0 =>
                   new.originalSize = client.size[k] /\ client.size[k] > MAX_IMAGE_SIZE_MB

\* A request sent with two downloaded references: one of 2 MB encoded as it
\* was, one above 2 MB recompressed and encoded with its sizes.
C31_Witness ==
    /\ Posted
    /\ \E k, l \in DOMAIN client.img :
         /\ client.size[k] = MAX_IMAGE_SIZE_MB /\ client.img[k] = "resolved"
         /\ client.updatedImageRefs[k].compressedSize = 0
         /\ client.size[l] > MAX_IMAGE_SIZE_MB /\ client.img[l] = "resolved"
         /\ client.updatedImageRefs[l].compressedSize > 0

\* The compile service has answered job 1 with success.
ServiceSucceeded == res[1] # << >> /\ res[1][1].status = 200

\* C37: the document route and the compile service agree on the success
\* protocol: whenever the compile service answers a job with success, the
\* GET handler called with format=pdf recognises that answer as a success
\* and returns the PDF bytes to its caller, and it returns a 500 error only
\* when the compile service reported a failure or could not be reached.
C37_SuccessProtocolAgrees ==
    client.state = "answered" =>
      /\ ServiceSucceeded =>
            client.answer.status = 200 /\ client.answer.body = res[1][1].body
      /\ client.answer.status = 500 => ~ServiceSucceeded

\* Job j waits at step s for a child that does not exit on its own.
Hung(j, s) == pc[j] = s /\ proc[j] = "hung"

\* The lualatex runs are bounded-time invocations: each is started with a
\* timeout, and a run that never exits on its own is left behind.
C33_PassesBounded ==
    /\ [](\A j \in Jobs : pc[j] \in Passes => SpawnTimeout(pc[j]) > 0)
    /\ \A s \in Passes : Hung(1, s) ~> ~Hung(1, s)

\* C33: every external process a job starts, the bibliography processor
\* included, is a bounded-time invocation: each is started with a timeout,
\* so a process that never exits on its own cannot block the job's progress
\* to artifact collection forever.
C33_EveryProcessBounded ==
    /\ [](\A j \in Jobs : pc[j] \in Passes \cup { "bibtex" } => SpawnTimeout(pc[j]) > 0)
    /\ \A s \in Passes \cup { "bibtex" } : Hung(1, s) ~> ~Hung(1, s)

\* The second half of C33 alone: no child that never exits blocks its job.
C33_NoChildBlocksForever ==
    \A s \in Passes \cup { "bibtex" } : Hung(1, s) ~> ~Hung(1, s)

\* C36: in the two-pass variant of the compile handler that checks the
\* artifact for non-emptiness, every request still receives a response:
\* when the PDF file exists but is empty (or cannot be read) the job
\* answers with a failure, and when it is non-empty with success; no branch
\* ends the handler without responding.
C36_TwoPassAlwaysResponds ==
    (variant.state = "ended" /\ variant.read # "none") =>
        /\ Len(variant.res) = 1
        /\ variant.res[1].status = (IF variant.read = "full" THEN 200 ELSE 500)

\* The part of C36 that the handler keeps: a PDF that cannot be read is
\* answered once, with 500.
C36_UnreadableAnswered500 ==
    (variant.state = "ended" /\ variant.read \in { "ENOENT", "EACCES" }) =>
        /\ Len(variant.res) = 1
        /\ variant.res[1].status = 500

\* An empty PDF ends the handler with no response.
C36_EmptyUnanswered ==
    (variant.state = "ended" /\ variant.read = "empty") => variant.res = << >>

\* A non-empty PDF is answered with 500.
C36_NonEmptyAnswered500 ==
    (variant.state = "ended" /\ variant.read = "full") =>
        (Len(variant.res) = 1 /\ variant.res[1].status = 500)

\* The fetch or the extraction of a task failed.
TaskFailed(o) == o.kind \in { "fetchThrows", "extractThrows" }

\* C32: the per-section fetch-and-extract tasks run concurrently and are
\* joined once; the resulting section sequence has the same length and
\* order as the section list, whatever order the tasks complete in, and a
\* section whose document fetch or extraction fails yields that section
\* with empty content and an error message, without aborting the request
\* or affecting any other section's content.
C32_SectionsJoinedInOrder ==
    /\ tasks.state = "running" =>
          /\ \A i \in DOMAIN tasks.sections :
                tasks.outcome[i] = Pending => ENABLED TaskSettles(i)
          /\ Len(tasks.settled) = Len(tasks.sections) => ENABLED JoinSections
    /\ tasks.state = "joined" =>
          LET result == tasks.sectionsWithContent IN
          /\ Len(result) = Len(tasks.sections)
          /\ \A i \in DOMAIN tasks.sections :
                /\ result[i].id = tasks.sections[i].id
                /\ result[i].name = tasks.sections[i].name
                /\ TaskFailed(tasks.outcome[i]) =>
                      (result[i].content = << >> /\ result[i].error # << >>)
                /\ tasks.outcome[i].kind = "data" =>
                      /\ result[i].content =
                            extractContent(tasks.outcome[i].fragment, tasks.enableLogging)
                      /\ result[i].error = << >>

\* C32's case: two sections joined, the second task having finished first
\* with its content, the first having failed at its fetch.
C32_Witness ==
    /\ tasks.state = "joined"
    /\ tasks.settled = << 2, 1 >>
    /\ tasks.outcome[1].kind = "fetchThrows"
    /\ tasks.outcome[2].kind = "data"
    /\ tasks.sectionsWithContent[2].content # << >>
    /\ tasks.sectionsWithContent[1].error = << "boom" >>
====
